---- MODULE Spec2Model ----
(***************************************************************************)
(* Axis range fitting, tick generation and data/screen projection of the   *)
(* Locus plotting crate (src/src/plottable).                               *)
(*                                                                         *)
(* Every operation of this core is a pure function of f32 inputs.  An f32  *)
(* value is modelled as an exact rational <<n, d>> in lowest terms with    *)
(* d > 0, so +, -, *, / are exact: the thresholds of the code              *)
(* (f32::EPSILON, 1e-7, 1e-6, 1.5, 3.0, 7.0) keep their real values, but   *)
(* the rounding error of the f32 operations is not represented, except in  *)
(* the products of powi on factors next to 1 (MulF32) and in the widening  *)
(* of a single-point range by 1 at magnitudes from 2^24 on (RoundF32).     *)
(* The casts `as i32` saturate at the real i32 limits.                     *)
(***************************************************************************)
EXTENDS Integers, Sequences, FiniteSets, TLC

VARIABLES op, args, result

vars == <<op, args, result>>

---------------------------------------------------------------------------
(* Exact rational arithmetic standing for f32 arithmetic.                  *)

RECURSIVE GCD(_, _)
GCD(a, b) == IF b = 0 THEN a ELSE GCD(b, a % b)

AbsI(n) == IF n < 0 THEN -n ELSE n

Rat(n, d) ==
    LET g == GCD(AbsI(n), AbsI(d))
        s == IF d < 0 THEN -1 ELSE 1
    IN  <<(s * n) \div g, (s * d) \div g>>

R(n) == <<n, 1>>

Zero == <<0, 1>>

One == <<1, 1>>

Neg(a) == <<-a[1], a[2]>>

Add(a, b) ==
    LET g == GCD(a[2], b[2])
    IN  Rat(a[1] * (b[2] \div g) + b[1] * (a[2] \div g), (a[2] \div g) * b[2])

Sub(a, b) == Add(a, Neg(b))

Mul(a, b) ==
    LET g1 == GCD(AbsI(a[1]), b[2])
        g2 == GCD(AbsI(b[1]), a[2])
    IN  <<(a[1] \div g1) * (b[1] \div g2), (a[2] \div g2) * (b[2] \div g1)>>

\* a / b for b # 0
Div(a, b) ==
    Mul(a, IF b[1] < 0 THEN <<-b[2], -b[1]>> ELSE <<b[2], b[1]>>)

\* a < b, compared by continued fractions so that no product is formed
RECURSIVE Lt(_, _)
Lt(a, b) ==
    LET qa == a[1] \div a[2]
        qb == b[1] \div b[2]
        ra == a[1] % a[2]
        rb == b[1] % b[2]
    IN  IF a[2] = b[2] THEN a[1] < b[1]
        ELSE IF qa # qb THEN qa < qb
        ELSE IF rb = 0 THEN FALSE
        ELSE IF ra = 0 THEN TRUE
        ELSE Lt(<<b[2], rb>>, <<a[2], ra>>)

Le(a, b) == ~Lt(b, a)

AbsR(a) == <<AbsI(a[1]), a[2]>>

\* f32::min / f32::max
MinR(a, b) == IF Lt(b, a) THEN b ELSE a

MaxR(a, b) == IF Lt(a, b) THEN b ELSE a

\* f32::floor, f32::ceil, f32::round (half away from zero), as integers
Floor(a) == a[1] \div a[2]

Ceil(a) == -((-a[1]) \div a[2])

Round(a) ==
    LET q == a[1] \div a[2]
        r == a[1] % a[2]
    IN  IF a[1] >= 0 THEN (IF 2 * r >= a[2] THEN q + 1 ELSE q)
        ELSE (IF 2 * r > a[2] THEN q + 1 ELSE q)

\* the nearest integer of a >= 0, a tie going to the even one: the rounding
\* of an f32 operation and of the float formatter
RoundHalfEven(a) ==
    LET q == a[1] \div a[2]
        r == a[1] % a[2]
    IN  IF r > a[2] - r THEN q + 1
        ELSE IF r = a[2] - r THEN q + (q % 2)
        ELSE q

\* f32::EPSILON = 2^-23
EPSILON == <<1, 8388608>>

(* The f32 values of [1, 2) are the multiples of 2^-23 (f32::EPSILON).  The *)
(* exact product of two of them can need more than 24 significant bits;    *)
(* the f32 multiplication then rounds it to the nearest f32, a tie going   *)
(* to the even one.  This rounding is followed for the factors of          *)
(* [1, 1 + 2^-8), where the exact product has no place in the integers of  *)
(* the model; elsewhere the product is exact.                              *)
OnGrid(a) == a[1] >= a[2] /\ a[1] < 2 * a[2] /\ EPSILON[2] % a[2] = 0

\* (a - 1) / f32::EPSILON, for a on the grid
Ulps(a) == (a[1] - a[2]) * (EPSILON[2] \div a[2])

\* 1 + n * f32::EPSILON
FromUlps(n) == Rat(EPSILON[2] + n, EPSILON[2])

\* the exact product of a and b is off the grid of [1, 2)
Inexact(a, b) == a[2] > EPSILON[2] \div b[2]

\* (1 + x e)(1 + y e) = 1 + (x + y) e + (x y e) e, rounded to the grid
MulRounded(x, y) == FromUlps(x + y + RoundHalfEven(<<x * y, EPSILON[2]>>))

\* the number of bits by which the natural number m exceeds the 24 bits of
\* an f32 mantissa
RECURSIVE ExcessBits(_)
ExcessBits(m) == IF m < 16777216 THEN 0 ELSE 1 + ExcessBits(m \div 2)

\* the f32 nearest to a, for |a| >= 2^24, where the f32 values are the
\* multiples of a power of two greater than 1; a itself below that
RoundF32(a) ==
    IF ExcessBits(AbsI(a[1]) \div a[2]) = 0 THEN a
    ELSE R((IF a[1] < 0 THEN -1 ELSE 1)
            * RoundHalfEven(<<AbsI(a[1]), a[2] * 2 ^ ExcessBits(AbsI(a[1]) \div a[2])>>)
            * 2 ^ ExcessBits(AbsI(a[1]) \div a[2]))

\* a is an f32 of [1, 1 + 2^-8)
NearOne(a) == OnGrid(a) /\ (a[1] - a[2]) * 256 < a[2]

\* a * b as f32 computes it
MulF32(a, b) ==
    IF NearOne(a) /\ NearOne(b) /\ Inexact(a, b)
    THEN MulRounded(Ulps(a), Ulps(b))
    ELSE Mul(a, b)

---------------------------------------------------------------------------
(* view.rs: bounding boxes, viewport, projection                           *)

\* a plausible slip: the corners are taken as given
BBox_new_as_given(a, b) ==
    [minimum |-> [x |-> a.x, y |-> a.y], maximum |-> [x |-> b.x, y |-> b.y]]

\* BBox::new: re-orders the two corners componentwise
BBox_new(a, b) ==
    [minimum |-> [x |-> MinR(a.x, b.x), y |-> MinR(a.y, b.y)],
     maximum |-> [x |-> MaxR(a.x, b.x), y |-> MaxR(a.y, b.y)]]

\* Viewport::inner_bbox
inner_bbox(vp) ==
    BBox_new([x |-> Add(vp.x, vp.margins.left), y |-> Add(vp.y, vp.margins.top)],
             [x |-> Sub(Add(vp.x, vp.width), vp.margins.right),
              y |-> Sub(Add(vp.y, vp.height), vp.margins.bottom)])

\* a plausible slip: the degenerate input range yields the other end
map_val_degenerate_out_max(val, in_min, in_max, out_min, out_max) ==
    IF Lt(AbsR(Sub(in_max, in_min)), EPSILON) THEN out_max
    ELSE Add(Mul(Div(Sub(val, in_min), Sub(in_max, in_min)), Sub(out_max, out_min)),
             out_min)

\* a plausible slip: the offset of the output range is forgotten
map_val_no_offset(val, in_min, in_max, out_min, out_max) ==
    IF Lt(AbsR(Sub(in_max, in_min)), EPSILON) THEN out_min
    ELSE Mul(Div(Sub(val, in_min), Sub(in_max, in_min)), Sub(out_max, out_min))

map_val(val, in_min, in_max, out_min, out_max) ==
    IF Lt(AbsR(Sub(in_max, in_min)), EPSILON) THEN out_min
    ELSE Add(Mul(Div(Sub(val, in_min), Sub(in_max, in_min)), Sub(out_max, out_min)),
             out_min)

\* a plausible slip: the y output range is not inverted
to_screen_no_flip(data_bounds, screen_bounds, point) ==
    LET sb == inner_bbox(screen_bounds)
    IN  [x |-> map_val(point.x, data_bounds.minimum.x, data_bounds.maximum.x,
                       sb.minimum.x, sb.maximum.x),
         y |-> map_val(point.y, data_bounds.minimum.y, data_bounds.maximum.y,
                       sb.minimum.y, sb.maximum.y)]

\* ViewTransformer::to_screen
to_screen(data_bounds, screen_bounds, point) ==
    LET sb == inner_bbox(screen_bounds)
    IN  [x |-> map_val(point.x, data_bounds.minimum.x, data_bounds.maximum.x,
                       sb.minimum.x, sb.maximum.x),
         y |-> map_val(point.y, data_bounds.minimum.y, data_bounds.maximum.y,
                       sb.maximum.y, sb.minimum.y)]

(* Inputs of the projection.  Tiny == 2^-24 is a positive width below      *)
(* f32::EPSILON.                                                           *)
Tiny == <<1, 16777216>>

\* <<minimum, maximum>> of the data box on one axis, minimum <= maximum
RangesX == {<<R(-2), R(8)>>, <<Zero, R(10)>>, <<Zero, Zero>>, <<Zero, Tiny>>,
            <<R(10), R(10)>>}

RangesY == {<<Zero, R(5)>>, <<Zero, Tiny>>, <<R(5), R(5)>>, <<R(-2), R(8)>>}

PointXs == {R(-3), R(-2), Zero, Tiny, R(4), R(8), R(10), R(12)}

PointYs == {R(-2), Zero, Tiny, R(2), R(5), R(8)}

\* <<x, width, margins.left, margins.right>> and the same for y; the third
\* has an empty inner box, the fourth margins wider than the viewport
SpansX == {<<Zero, R(100), Zero, Zero>>, <<R(8), R(64), R(16), R(8)>>,
           <<Zero, R(40), R(20), R(20)>>, <<R(5), R(30), R(25), R(15)>>}

SpansY == {<<Zero, R(100), Zero, Zero>>, <<R(8), R(64), R(8), R(16)>>,
           <<R(5), R(30), R(25), R(15)>>}

\* data boxes obeying the BBox invariant minimum <= maximum
DataBoxes ==
    {[minimum |-> [x |-> rx[1], y |-> ry[1]], maximum |-> [x |-> rx[2], y |-> ry[2]]] :
        <<rx, ry>> \in RangesX \X RangesY}

Viewports ==
    {[x |-> sx[1], y |-> sy[1], width |-> sx[2], height |-> sy[2],
      margins |-> [left |-> sx[3], right |-> sx[4], top |-> sy[3], bottom |-> sy[4]]] :
        <<sx, sy>> \in SpansX \X SpansY}

Points == {[x |-> px, y |-> py] : <<px, py>> \in PointXs \X PointYs}

---------------------------------------------------------------------------
(* mod.rs (common): nice numbers; line.rs: calculate_nice_range            *)

\* base^e for an integer e (f32::powi, f32::powf with an integral exponent)
RECURSIVE Pow(_, _)
Pow(base, e) ==
    IF base = One \/ e = 0 THEN One
    ELSE IF e < 0 THEN Div(One, Pow(base, -e))
    ELSE MulF32(base, Pow(base, e - 1))

RECURSIVE LogFloorUp(_, _, _)
LogFloorUp(x, base, e) ==
    IF Le(Pow(base, e + 1), x) THEN LogFloorUp(x, base, e + 1) ELSE e

RECURSIVE LogFloorDown(_, _, _)
LogFloorDown(x, base, e) ==
    IF Le(Pow(base, e), x) THEN e ELSE LogFloorDown(x, base, e - 1)

\* floor(log_base(x)) for x > 0 and base > 1: the largest e with base^e <= x
LogFloor(x, base) ==
    IF Le(One, x) THEN LogFloorUp(x, base, 0) ELSE LogFloorDown(x, base, -1)

\* ceil(log_base(x)) for x > 0 and base > 1: the least e with x <= base^e
LogCeil(x, base) ==
    LET f == LogFloor(x, base) IN IF Pow(base, f) = x THEN f ELSE f + 1

Ten == <<10, 1>>

\* a plausible slip: the 2/5 threshold is put at 2.5 instead of 3.0
nice_number_threshold(value, round) ==
    IF value = Zero THEN Zero
    ELSE
        LET exponent == LogFloor(value, Ten)
            fraction == Div(value, Pow(Ten, exponent))
            nice_fraction ==
                IF round THEN
                    IF Lt(fraction, <<3, 2>>) THEN One
                    ELSE IF Lt(fraction, <<5, 2>>) THEN R(2)
                    ELSE IF Lt(fraction, R(7)) THEN R(5)
                    ELSE Ten
                ELSE IF Le(fraction, One) THEN One
                ELSE IF Le(fraction, R(2)) THEN R(2)
                ELSE IF Le(fraction, R(5)) THEN R(5)
                ELSE Ten
        IN  Mul(nice_fraction, Pow(Ten, exponent))

\* nice_number, for value >= 0.  For value = 0 the f32 operations give
\* log10(0) = -inf, 10^-inf = 0, 0/0 = NaN, every comparison with NaN false,
\* hence 10.0 * 0.0 = 0.
nice_number(value, round) ==
    IF value = Zero THEN Zero
    ELSE
        LET exponent == LogFloor(value, Ten)
            fraction == Div(value, Pow(Ten, exponent))
            nice_fraction ==
                IF round THEN
                    IF Lt(fraction, <<3, 2>>) THEN One
                    ELSE IF Lt(fraction, R(3)) THEN R(2)
                    ELSE IF Lt(fraction, R(7)) THEN R(5)
                    ELSE Ten
                ELSE IF Le(fraction, One) THEN One
                ELSE IF Le(fraction, R(2)) THEN R(2)
                ELSE IF Le(fraction, R(5)) THEN R(5)
                ELSE Ten
        IN  Mul(nice_fraction, Pow(Ten, exponent))

\* usize::max
MaxI(a, b) == IF a < b THEN b ELSE a

\* a plausible slip: the lower end is snapped to the nearest grid line
calculate_nice_range_round(min, max, padding_pct, ticks) ==
    IF Lt(AbsR(Sub(min, max)), EPSILON)
    THEN <<RoundF32(Sub(min, One)), RoundF32(Add(max, One))>>
    ELSE
        LET range == Sub(max, min)
            padding == Mul(range, padding_pct)
            padded_min == Sub(min, padding)
            padded_max == Add(max, padding)
            padded_range == Sub(padded_max, padded_min)
            rough_step == Div(padded_range, R(MaxI(ticks, 1)))
            step == nice_number(rough_step, TRUE)
        IN  <<Mul(R(Round(Div(padded_min, step))), step),
              Mul(R(Ceil(Div(padded_max, step))), step)>>

\* a plausible slip: the upper end is left on the padded value
calculate_nice_range_no_snap(min, max, padding_pct, ticks) ==
    IF Lt(AbsR(Sub(min, max)), EPSILON)
    THEN <<RoundF32(Sub(min, One)), RoundF32(Add(max, One))>>
    ELSE
        LET range == Sub(max, min)
            padding == Mul(range, padding_pct)
            padded_min == Sub(min, padding)
            padded_max == Add(max, padding)
            padded_range == Sub(padded_max, padded_min)
            rough_step == Div(padded_range, R(MaxI(ticks, 1)))
            step == nice_number(rough_step, TRUE)
        IN  <<Mul(R(Floor(Div(padded_min, step))), step), padded_max>>

calculate_nice_range(min, max, padding_pct, ticks) ==
    IF Lt(AbsR(Sub(min, max)), EPSILON)
    THEN <<RoundF32(Sub(min, One)), RoundF32(Add(max, One))>>
    ELSE
        LET range == Sub(max, min)
            padding == Mul(range, padding_pct)
            padded_min == Sub(min, padding)
            padded_max == Add(max, padding)
            padded_range == Sub(padded_max, padded_min)
            rough_step == Div(padded_range, R(MaxI(ticks, 1)))
            step == nice_number(rough_step, TRUE)
        IN  <<Mul(R(Floor(Div(padded_min, step))), step),
              Mul(R(Ceil(Div(padded_max, step))), step)>>

\* positive values handed to nice_number: n * 10^e for n in 1 .. MaxMantissa
\* and e in -2 .. 1, and some values near f32::EPSILON
MaxMantissa == 40

NiceInputs ==
    UNION {{Rat(n, 100), Rat(n, 10), R(n), R(10 * n)} : n \in 1 .. MaxMantissa}
        \cup {EPSILON, Tiny, <<1, 10000000>>, <<1, 100000000>>, <<3, 10000000>>}

\* ends of the raw data ranges
RangeEnds == {R(-7), <<-3, 2>>, Zero, <<1, 2>>, One, <<37, 10>>, R(12), R(100)}

PaddingPcts == {Zero, <<1, 20>>, <<1, 10>>, <<1, 2>>, R(3)}

TargetTicks == {0, 1, 5, 10}

\* a padding factor so large that it pads a range narrower than f32::EPSILON
\* by more than 1
HugePct == <<200000000, 1>>

\* <<min, max, padding_pct, ticks>> with min <= max; the second family is the
\* range [0, 1e-8], of positive width below f32::EPSILON
NiceRangeInputs ==
    {q \in RangeEnds \X RangeEnds \X PaddingPcts \X TargetTicks : Le(q[1], q[2])}
        \cup {<<Zero, <<1, 100000000>>, pct, t>> :
                pct \in {Zero, <<1, 10>>, HugePct}, t \in {1, 5}}

\* Line::new, Datapoint::new
Datapoint(x, y) == [x |-> x, y |-> y]

Line(from, to) == [from |-> from, to |-> to]

\* Axis::new
Axis(x_axis, y_axis) == [x_axis |-> x_axis, y_axis |-> y_axis]

\* the Axis built from the two fitted ranges rx = <<min_x, max_x>> and
\* ry = <<min_y, max_y>>
AxisOf(rx, ry) ==
    Axis(Line(Datapoint(rx[1], ry[1]), Datapoint(rx[2], ry[1])),
         Line(Datapoint(rx[1], ry[1]), Datapoint(rx[1], ry[2])))

\* Axis::fitting; a Range is <<start, end>>
fitting(x_range, y_range, padding_pct, ticks) ==
    AxisOf(calculate_nice_range(MinR(x_range[1], x_range[2]), MaxR(x_range[2], x_range[1]),
                                padding_pct, ticks),
           calculate_nice_range(MinR(y_range[1], y_range[2]), MaxR(y_range[2], y_range[1]),
                                padding_pct, ticks))

\* BBox::from_min_max: the box, and whether a debug assertion fails
from_min_max(minimum, maximum) ==
    [minimum |-> minimum, maximum |-> maximum,
     panics |-> ~(Le(minimum.x, maximum.x) /\ Le(minimum.y, maximum.y))]

\* a plausible slip: the segments are taken to run from the minimum to the
\* maximum
data_bounds_from_to(axis) ==
    from_min_max(Datapoint(axis.x_axis.from.x, axis.y_axis.from.y),
                 Datapoint(axis.x_axis.to.x, axis.y_axis.to.y))

\* Axis::data_bounds
data_bounds(axis) ==
    from_min_max(Datapoint(MinR(axis.x_axis.from.x, axis.x_axis.to.x),
                           MinR(axis.y_axis.from.y, axis.y_axis.to.y)),
                 Datapoint(MaxR(axis.x_axis.from.x, axis.x_axis.to.x),
                           MaxR(axis.y_axis.from.y, axis.y_axis.to.y)))

NiceNumber ==
    /\ op = "idle"
    /\ \E v \in NiceInputs, round \in BOOLEAN :
        /\ op' = "nice_number"
        /\ args' = [value |-> v, round |-> round]
        /\ result' = nice_number(v, round)

CalculateNiceRange ==
    /\ op = "idle"
    /\ \E q \in NiceRangeInputs :
        /\ op' = "calculate_nice_range"
        /\ args' = [min |-> q[1], max |-> q[2], padding_pct |-> q[3], ticks |-> q[4]]
        /\ result' = calculate_nice_range(q[1], q[2], q[3], q[4])

---------------------------------------------------------------------------
(* mod.rs (common): linear_spacing, log_spacing; ticks.rs: TickSet         *)

I32_MAX == 2147483647

I32_MIN == -I32_MAX - 1

\* `as i32` of an integral f32: saturating
AsI32(n) == IF n > I32_MAX THEN I32_MAX ELSE IF n < I32_MIN THEN I32_MIN ELSE n

\* The enumeration loops of the tick generators are followed for at most
\* MaxIter iterations; a TickSet of the model has complete = FALSE when its
\* loop runs longer, and then holds the ticks of the first MaxIter iterations.
MaxIter == 40

\* lo ..= hi has more than MaxIter elements
Overrun(lo, hi) == lo <= hi /\ lo <= I32_MAX - MaxIter /\ lo + MaxIter <= hi

\* f32::MIN_POSITIVE is 2^-126; the model scales it to 2^-MinPositiveBits
MinPositiveBits == 10

MIN_POSITIVE == <<1, 2 ^ MinPositiveBits>>

(* Separation is <<"Auto">> or <<"Value", v>>; Scale is a record tagged by *)
(* kind; an Option is a sequence of length at most one.                    *)
Auto == <<"Auto">>

Value(v) == <<"Value", v>>

Linear == [kind |-> "Linear"]

Log(base, include_minor) ==
    [kind |-> "Log", base |-> base, include_minor |-> include_minor]

SymLog(base, lin_threshold, include_minor) ==
    [kind |-> "SymLog", base |-> base, lin_threshold |-> lin_threshold,
     include_minor |-> include_minor]

TickSpec(scale, max_ticks, separation) ==
    [scale |-> scale, max_ticks |-> max_ticks, separation |-> separation]

\* the last three lines of linear_spacing: <<val_min, val_max, step>>; the
\* upper end is snapped from the argument `max`, not from `high`
SnapToStep(low, max, step) ==
    <<Mul(R(Floor(Div(low, step))), step), Mul(R(Ceil(Div(max, step))), step), step>>

\* returns <<val_min, val_max, step>>
linear_spacing(min, max, max_ticks) ==
    LET lo == MinR(min, max)
        hi == MaxR(min, max)
        degenerate == Lt(AbsR(Sub(hi, lo)), EPSILON)
        low == IF degenerate THEN Sub(lo, One) ELSE lo
        high == IF degenerate THEN Add(hi, One) ELSE hi
        n == MaxI(max_ticks, 2)
    IN  SnapToStep(low, max,
                   nice_number(MaxR(Div(Sub(high, low), R(n - 1)), EPSILON), TRUE))

(* A String is the sequence of its characters, each a one-character string *)
DigitChars == <<"0", "1", "2", "3", "4", "5", "6", "7", "8", "9">>

\* the decimal digits of a natural number
RECURSIVE DigitsOf(_)
DigitsOf(n) ==
    IF n < 10 THEN <<DigitChars[n + 1]>>
    ELSE DigitsOf(n \div 10) \o <<DigitChars[(n % 10) + 1]>>

\* the last `width` decimal digits of n, with leading zeros
RECURSIVE PadDigits(_, _)
PadDigits(n, width) ==
    IF width = 0 THEN <<>>
    ELSE PadDigits(n \div 10, width - 1) \o <<DigitChars[(n % 10) + 1]>>

\* `while s.ends_with('0') { s.pop(); }`
RECURSIVE StripZeros(_)
StripZeros(s) ==
    IF s # <<>> /\ s[Len(s)] = "0" THEN StripZeros(SubSeq(s, 1, Len(s) - 1)) ELSE s

\* `if s.ends_with('.') { s.pop(); }`
StripDot(s) == IF s # <<>> /\ s[Len(s)] = "." THEN SubSeq(s, 1, Len(s) - 1) ELSE s

\* format!("{v:.decimals$}") from the sign, the scaled and rounded magnitude
\* n = round(|v| * 10^decimals) and scale = 10^decimals
FixedDigits(negative, n, scale, decimals) ==
    (IF negative THEN <<"-">> ELSE <<>>)
        \o DigitsOf(n \div scale)
        \o (IF decimals > 0 THEN <<".">> \o PadDigits(n % scale, decimals) ELSE <<>>)

\* the tail of format_tick: trailing zeros and a trailing point are dropped
\* when decimals > 0, and "-0" becomes "0"
TrimFixed(s, decimals) ==
    IF (IF decimals > 0 THEN StripDot(StripZeros(s)) ELSE s) = <<"-", "0">>
    THEN <<"0">>
    ELSE IF decimals > 0 THEN StripDot(StripZeros(s)) ELSE s

\* <<floor(x * 10^k), remainder>> by long division, for x = q + r / d
RECURSIVE ScaleDiv(_, _, _, _)
ScaleDiv(q, r, d, k) ==
    IF k = 0 THEN <<q, r>>
    ELSE ScaleDiv(10 * q + (10 * r) \div d, (10 * r) % d, d, k - 1)

\* the quotient qr[1] with remainder qr[2] out of d, rounded half to even
RoundAt(qr, d) ==
    IF qr[2] > d - qr[2] THEN qr[1] + 1
    ELSE IF qr[2] = d - qr[2] THEN qr[1] + (qr[1] % 2)
    ELSE qr[1]

\* round(a * 10^k) for a >= 0: the digits the formatter prints at precision k
ScaledRound(a, k) == RoundAt(ScaleDiv(a[1] \div a[2], a[1] % a[2], a[2], k), a[2])

\* format_tick
format_tick(v, decimals) ==
    TrimFixed(FixedDigits(v[1] < 0, ScaledRound(AbsR(v), decimals),
                          10 ^ decimals, decimals),
              decimals)

\* decimals_for_step
decimals_for_step(step) ==
    IF Le(step, Zero) THEN 0
    ELSE IF Le(One, step) THEN 0
    ELSE MaxI(-LogFloor(step, Ten), 0)

\* format!("{v:.0e}") for v > 0 from the decimal exponent e of v and the
\* rounded leading digit m = round(v / 10^e)
ExpDigits(m, e) ==
    (IF m = 10 THEN <<"1", "e">> ELSE <<DigitChars[m + 1], "e">>)
        \o (IF m = 10
            THEN (IF e + 1 < 0 THEN <<"-">> \o DigitsOf(-(e + 1)) ELSE DigitsOf(e + 1))
            ELSE (IF e < 0 THEN <<"-">> \o DigitsOf(-e) ELSE DigitsOf(e)))

\* the mantissa digit of ExpDigits
LeadingDigit(v, e) == RoundHalfEven(Div(v, Pow(Ten, e)))

\* format_log_label, for v > 0
format_log_label(v) ==
    IF Le(<<1, 100>>, v) /\ Lt(v, R(1000)) THEN format_tick(v, 6)
    ELSE ExpDigits(LeadingDigit(v, LogFloor(v, Ten)), LogFloor(v, Ten))

\* 1e-7, the snap-to-zero tolerance of linear_ticks
SnapTolerance == <<1, 10000000>>

\* `if v.abs() < 1e-7 * step.max(1.0) { v = 0.0; }`
Snap(v, step) ==
    IF Lt(AbsR(v), Mul(SnapTolerance, MaxR(step, One))) THEN Zero ELSE v

\* the Tick pushed for a snapped value v
LinearTickAt(v, dec) == [value |-> v, label |-> format_tick(v, dec), major |-> TRUE]

\* the body of `for k in k0..=k1` in linear_ticks
LinearTick(k, step, dec) == LinearTickAt(Snap(Mul(R(k), step), step), dec)

RECURSIVE LinearLoop(_, _, _, _, _)
LinearLoop(k, k1, step, dec, done) ==
    IF k > k1 \/ done = MaxIter THEN <<>>
    ELSE <<LinearTick(k, step, dec)>>
            \o (IF k = k1 THEN <<>> ELSE LinearLoop(k + 1, k1, step, dec, done + 1))

\* linear_ticks once sp = <<val_min, val_max, step>> is computed: the
\* explicit separation replaces the step, not val_min and val_max
LinearTicksFrom(sp, separation) ==
    LET step == IF separation[1] = "Value" /\ Lt(Zero, separation[2])
                THEN separation[2] ELSE sp[3]
        k0 == AsI32(Round(Div(sp[1], step)))
        k1 == AsI32(Round(Div(sp[2], step)))
    IN  [step |-> <<step>>,
         ticks |-> LinearLoop(k0, k1, step, decimals_for_step(step), 0),
         complete |-> ~Overrun(k0, k1)]

\* TickSet::linear_ticks
linear_ticks(min, max, spec) ==
    LinearTicksFrom(linear_spacing(min, max, spec.max_ticks), spec.separation)

\* (x.log(base).floor()) as i32 for x >= 0 and base >= 1, where
\* x.log(base) = x.ln() / base.ln(): -inf for x = 0; for base = 1 the divisor
\* is 0 and the quotient -inf, NaN or +inf; the cast saturates and sends NaN to 0
LogFloorI32(x, base) ==
    IF base = One
    THEN IF Lt(x, One) THEN I32_MIN ELSE IF x = One THEN 0 ELSE I32_MAX
    ELSE IF x = Zero THEN I32_MIN
    ELSE AsI32(LogFloor(x, base))

\* (x.log(base).ceil()) as i32, likewise
LogCeilI32(x, base) ==
    IF base = One
    THEN IF Lt(x, One) THEN I32_MIN ELSE IF x = One THEN 0 ELSE I32_MAX
    ELSE IF x = Zero THEN I32_MIN
    ELSE AsI32(LogCeil(x, base))

\* a plausible slip: the upper end of the range is let in
InRange_closed(low, high, v) == Le(low, v) /\ Le(v, high)

\* (low..high).contains(&v)
InRange(low, high, v) == Le(low, v) /\ Lt(v, high)

\* a plausible slip: the multiples start at m = 1, the power itself
Minors_from_one(tick, minor_max, low, high) ==
    IF minor_max >= 3
    THEN SelectSeq([i \in 1 .. (minor_max - 1) |-> Mul(R(i), tick)],
                   LAMBDA v : InRange(low, high, v))
    ELSE <<>>

\* `for m in 2..minor_max` of log_spacing, for tick = base^exponent and
\* minor_max = base.floor() as i32: the minor ticks of one exponent
Minors(tick, minor_max, low, high) ==
    IF minor_max >= 3
    THEN SelectSeq([i \in 1 .. (minor_max - 2) |-> Mul(R(i + 1), tick)],
                   LAMBDA v : InRange(low, high, v))
    ELSE <<>>

\* `for exponent in e0..=e1` of log_spacing: the major and the minor ticks
RECURSIVE LogLoop(_, _, _, _, _, _, _)
LogLoop(e, e1, low, high, base, include_minor, done) ==
    IF e > e1 \/ done = MaxIter THEN [ticks |-> <<>>, minor_ticks |-> <<>>]
    ELSE
        LET tick == Pow(base, e)
            minors ==
                IF include_minor THEN Minors(tick, AsI32(Floor(base)), low, high)
                ELSE <<>>
            rest ==
                IF e = e1 THEN [ticks |-> <<>>, minor_ticks |-> <<>>]
                ELSE LogLoop(e + 1, e1, low, high, base, include_minor, done + 1)
        IN  [ticks |-> (IF InRange(low, high, tick) THEN <<tick>> ELSE <<>>) \o rest.ticks,
             minor_ticks |-> minors \o rest.minor_ticks]

\* log_spacing: None, or Some((low_pos, high, ticks, minor_ticks))
log_spacing(min, max, base, include_minor) ==
    LET low == MinR(min, max)
        high == MaxR(min, max)
    IN  IF Lt(base, One) \/ Lt(high, Zero) THEN [some |-> FALSE]
        ELSE
            LET low_pos == MaxR(low, MIN_POSITIVE)
                e0 == LogFloorI32(low_pos, base)
                e1 == LogCeilI32(high, base)
                loop == LogLoop(e0, e1, low, high, base, include_minor, 0)
            IN  [some |-> TRUE, low_pos |-> low_pos, high |-> high, ticks |-> loop.ticks,
                 minor_ticks |-> IF include_minor THEN <<loop.minor_ticks>> ELSE <<>>,
                 complete |-> ~Overrun(e0, e1)]

\* ticks.sort_by(|a, b| a.value.partial_cmp(&b.value).unwrap()): a stable
\* sort; the place of a tick is one more than the number of ticks with a
\* smaller value or with the same value and an earlier position
SortByValue(ticks) ==
    LET n == Len(ticks)
        rank == [i \in 1 .. n |->
                    1 + Cardinality({j \in 1 .. n :
                            \/ Lt(ticks[j].value, ticks[i].value)
                            \/ (j < i /\ ticks[j].value = ticks[i].value)})]
    IN  [r \in 1 .. n |-> ticks[CHOOSE i \in 1 .. n : rank[i] = r]]

\* log_ticks once sp = log_spacing(..) is computed: the majors, then the
\* minors, sorted by value
LogTicksFrom(sp) ==
    IF sp.some
    THEN LET majors == [i \in 1 .. Len(sp.ticks) |->
                            [value |-> sp.ticks[i], label |-> format_log_label(sp.ticks[i]),
                             major |-> TRUE]]
             minors == IF sp.minor_ticks = <<>> THEN <<>>
                       ELSE [i \in 1 .. Len(sp.minor_ticks[1]) |->
                                [value |-> sp.minor_ticks[1][i], label |-> <<>>,
                                 major |-> FALSE]]
         IN  [step |-> <<>>, ticks |-> SortByValue(majors \o minors),
              complete |-> sp.complete]
    ELSE [step |-> <<>>, ticks |-> <<>>, complete |-> TRUE]

\* TickSet::log_ticks
log_ticks(min, max, base, include_minor) ==
    LogTicksFrom(log_spacing(min, max, base, include_minor))

\* 1e-6, the tolerance of the dedup in symlog_ticks
DedupTolerance == <<1, 1000000>>

\* the ticks from position i on that dedup_by keeps, b being the position of
\* the last tick kept so far
RECURSIVE DedupFrom(_, _, _)
DedupFrom(ticks, i, b) ==
    IF i > Len(ticks) THEN <<>>
    ELSE IF Lt(AbsR(Sub(ticks[i].value, ticks[b].value)), DedupTolerance)
    THEN DedupFrom(ticks, i + 1, b)
    ELSE <<ticks[i]>> \o DedupFrom(ticks, i + 1, i)

\* ticks.dedup_by(|a, b| (a.value - b.value).abs() < 1e-6): a tick is dropped
\* when it is that close to the last tick kept
Dedup(ticks) ==
    IF ticks = <<>> THEN <<>> ELSE <<ticks[1]>> \o DedupFrom(ticks, 2, 1)

\* usize::clamp
Clamp(n, lo, hi) == IF n < lo THEN lo ELSE IF n > hi THEN hi ELSE n

\* the three pushes of symlog_ticks, then its sort and dedup: `core` is the
\* linear tick set of the core, `pos` and `neg` the log tick sets of the
\* wings, each used only when its has_ flag holds
SymLogMerge(lin_threshold, has_core, core, has_pos, pos, has_neg, neg) ==
    LET core_ticks ==
            [i \in 1 .. Len(core.ticks) |->
                [value |-> core.ticks[i].value,
                 label |-> core.ticks[i].label,
                 major |-> \/ Lt(AbsR(core.ticks[i].value), EPSILON)
                           \/ Lt(AbsR(Sub(AbsR(core.ticks[i].value), lin_threshold)),
                                 EPSILON)]]
        neg_ticks ==
            [i \in 1 .. Len(neg.ticks) |->
                [value |-> Neg(neg.ticks[i].value),
                 label |-> IF neg.ticks[i].label = <<>> THEN <<>>
                           ELSE <<"-">> \o neg.ticks[i].label,
                 major |-> neg.ticks[i].major]]
        all == (IF has_core THEN core_ticks ELSE <<>>)
                \o (IF has_pos THEN pos.ticks ELSE <<>>)
                \o (IF has_neg THEN neg_ticks ELSE <<>>)
    IN  [step |-> <<>>, ticks |-> Dedup(SortByValue(all)),
         complete |-> /\ has_core => core.complete
                      /\ has_pos => pos.complete
                      /\ has_neg => neg.complete]

\* TickSet::symlog_ticks
symlog_ticks(min, max, base, lin_threshold, include_minor, max_ticks) ==
    LET lo == MinR(min, max)
        hi == MaxR(min, max)
        core_lo == MaxR(lo, Neg(lin_threshold))
        core_hi == MinR(hi, lin_threshold)
    IN  IF Lt(base, One) \/ Lt(lin_threshold, One)
        THEN [step |-> <<>>, ticks |-> <<>>, complete |-> TRUE]
        ELSE SymLogMerge(lin_threshold,
                 Le(core_lo, core_hi),
                 linear_ticks(core_lo, core_hi,
                              TickSpec(Linear, Clamp(max_ticks, 3, 7), Auto)),
                 Lt(lin_threshold, hi),
                 log_ticks(lin_threshold, hi, base, include_minor),
                 Lt(lo, Neg(lin_threshold)),
                 log_ticks(lin_threshold, Neg(lo), base, include_minor))

\* TickSet::generate_ticks
generate_ticks(min, max, spec) ==
    IF spec.scale.kind = "Linear" THEN linear_ticks(min, max, spec)
    ELSE IF spec.scale.kind = "Log"
    THEN log_ticks(min, max, spec.scale.base, spec.scale.include_minor)
    ELSE symlog_ticks(min, max, spec.scale.base, spec.scale.lin_threshold,
                      spec.scale.include_minor, spec.max_ticks)

Init ==
    /\ op = "idle"
    /\ args = [none |-> TRUE]
    /\ result = [none |-> TRUE]

\* a ViewTransformer is built and one point is projected
ToScreen ==
    /\ op = "idle"
    /\ \E d \in DataBoxes, vp \in Viewports, p \in Points :
        /\ op' = "to_screen"
        /\ args' = [data_bounds |-> d, screen_bounds |-> vp, point |-> p]
        /\ result' = to_screen(d, vp, p)

\* ends of the ranges handed to the linear generator; 2e-7 is just above
\* f32::EPSILON
LinearEnds == {R(-10), <<-3, 2>>, Zero, <<1, 5000000>>, One, R(10)}

MaxTicks == {0, 2, 3, 5, 10}

Separations ==
    {Auto, Value(<<1, 100000000>>), Value(<<1, 4>>), Value(R(3)), Value(Zero),
     Value(R(-1))}

\* ends of the ranges handed to the log and symlog generators
LogEnds == {R(-100), <<-3, 2>>, Zero, <<1, 2>>, One, R(10), R(1000)}

\* a positive f32 below f32::MIN_POSITIVE (a subnormal), on the model's scale
Subnormal == <<1, 2 ^ (MinPositiveBits + 2)>>

\* ends of the ranges handed to the log generator alone
LogOnlyEnds == LogEnds \cup {Subnormal}

Bases == {<<1, 2>>, One, R(2), R(3), Ten}

SymLogBases == {<<1, 2>>, One, R(2), Ten}

Thresholds == {<<1, 2>>, One, R(3), Ten}

\* ends of the ranges handed to the symlog generator: with 100 the ranges
\* [-100, 100] and [100, -100] are symmetric about zero
SymLogEnds == LogEnds \cup {R(100)}

SymLogMaxTicks == {2, 10}

GenerateLinear ==
    /\ op = "idle"
    /\ \E min \in LinearEnds, max \in LinearEnds, n \in MaxTicks, sep \in Separations :
        /\ op' = "generate_ticks"
        /\ args' = [min |-> min, max |-> max, spec |-> TickSpec(Linear, n, sep)]
        /\ result' = generate_ticks(min, max, TickSpec(Linear, n, sep))

GenerateLog ==
    /\ op = "idle"
    /\ \E min \in LogOnlyEnds, max \in LogOnlyEnds, base \in Bases, minor \in BOOLEAN :
        /\ op' = "generate_ticks"
        /\ args' = [min |-> min, max |-> max,
                    spec |-> TickSpec(Log(base, minor), 10, Auto)]
        /\ result' = generate_ticks(min, max, TickSpec(Log(base, minor), 10, Auto))

\* a base next to 1, 1 + 2^-22, whose first powers are 2^-22 apart, and the
\* ends of narrow ranges about it: 1 + 5 * 2^-23 and 1 + 13 * 2^-23
NearOneBase == FromUlps(2)

NearOneEnds == {FromUlps(5), FromUlps(13)}

\* ends of ranges about zero that are as narrow as f32::EPSILON: -5e-8, -1e-7
\* and 1e-7
TinyEnds == {<<-1, 20000000>>, <<-1, 10000000>>, <<1, 10000000>>}

\* <<min, max, base, lin_threshold, include_minor, max_ticks>>; the second
\* family is the symmetric ranges [-R, R] just above lin_threshold = 1 with the
\* base next to 1, the third the narrow ranges about zero
SymLogInputs ==
    (SymLogEnds \X SymLogEnds \X SymLogBases \X Thresholds \X BOOLEAN \X SymLogMaxTicks)
        \cup {<<Neg(r), r, NearOneBase, One, FALSE, n>> :
                r \in NearOneEnds, n \in SymLogMaxTicks}
        \cup {<<lo, hi, Ten, One, FALSE, n>> :
                lo \in TinyEnds, hi \in TinyEnds, n \in SymLogMaxTicks}

GenerateSymLog ==
    /\ op = "idle"
    /\ \E q \in SymLogInputs :
        /\ op' = "generate_ticks"
        /\ args' = [min |-> q[1], max |-> q[2],
                    spec |-> TickSpec(SymLog(q[3], q[4], q[5]), q[6], Auto)]
        /\ result' = generate_ticks(q[1], q[2], TickSpec(SymLog(q[3], q[4], q[5]), q[6], Auto))


\* the caller drops the result; the core keeps no state between calls
Return ==
    /\ op # "idle"
    /\ op' = "idle"
    /\ args' = [none |-> TRUE]
    /\ result' = [none |-> TRUE]

\* ends of the ranges handed to Axis::fitting
FitEnds == {R(-7), Zero, <<37, 10>>, R(12)}

FitRanges == FitEnds \X FitEnds

\* 2^25, where the f32 values are 2 apart below and 4 apart above
Big == R(33554432)

\* <<x_range, y_range, padding_pct, ticks>>; the second family has the
\* single-point x range [2^25, 2^25]
FitInputs ==
    (FitRanges \X FitRanges \X {Zero, <<1, 10>>} \X {1, 5})
        \cup ({<<Big, Big>>} \X FitRanges \X {Zero, <<1, 10>>} \X {1, 5})

Fitting ==
    /\ op = "idle"
    /\ \E q \in FitInputs :
        /\ op' = "fitting"
        /\ args' = [x_range |-> q[1], y_range |-> q[2], padding_pct |-> q[3], ticks |-> q[4]]
        /\ result' = fitting(q[1], q[2], q[3], q[4])

\* coordinates of corners and of segment ends
Coords == {R(-2), Zero, <<1, 2>>, R(3)}

Corners == {Datapoint(c[1], c[2]) : c \in Coords \X Coords}

\* BBox::new on two arbitrary corners
BBoxNew ==
    /\ op = "idle"
    /\ \E a \in Corners, b \in Corners :
        /\ op' = "BBox_new"
        /\ args' = [a |-> a, b |-> b]
        /\ result' = BBox_new(a, b)

\* segments between arbitrary points
SegmentEnds == {Datapoint(c[1], c[2]) : c \in {R(-2), Zero, R(3)} \X {R(-2), Zero, R(3)}}

\* Axis::new on two arbitrary segments, then data_bounds
DataBounds ==
    /\ op = "idle"
    /\ \E xf \in SegmentEnds, xt \in SegmentEnds, yf \in SegmentEnds, yt \in SegmentEnds :
        /\ op' = "data_bounds"
        /\ args' = [axis |-> Axis(Line(xf, xt), Line(yf, yt))]
        /\ result' = data_bounds(Axis(Line(xf, xt), Line(yf, yt)))

NextAxis == Fitting \/ BBoxNew \/ DataBounds \/ Return

SpecAxis == Init /\ [][NextAxis]_vars

NextView == ToScreen \/ Return

SpecView == Init /\ [][NextView]_vars

\* linear_spacing on bounds given in either order
LinearSpacing ==
    /\ op = "idle"
    /\ \E min \in LinearEnds, max \in LinearEnds, n \in MaxTicks :
        /\ op' = "linear_spacing"
        /\ args' = [min |-> min, max |-> max, max_ticks |-> n]
        /\ result' = linear_spacing(min, max, n)

NextRange == NiceNumber \/ CalculateNiceRange \/ LinearSpacing \/ Return

SpecRange == Init /\ [][NextRange]_vars

NextTicks == GenerateLinear \/ GenerateLog \/ GenerateSymLog \/ Return

SpecTicks == Init /\ [][NextTicks]_vars

---------------------------------------------------------------------------
(* Claims about the projection (SpecView)                                  *)

Projected == op = "to_screen"

Inner == inner_bbox(args.screen_bounds)

\* the data box is at least f32::EPSILON wide and high
WideBox(d) ==
    /\ ~Lt(AbsR(Sub(d.maximum.x, d.minimum.x)), EPSILON)
    /\ ~Lt(AbsR(Sub(d.maximum.y, d.minimum.y)), EPSILON)

\* the projected point is a corner of the data box and lands on the y-flipped
\* corner of the inner box; x is strictly increasing and y strictly decreasing
\* against every other input point when the inner box is not empty
CornersAndMonotone ==
    LET d == args.data_bounds
        vp == args.screen_bounds
        p == args.point
    IN  /\ p = d.minimum => result = [x |-> Inner.minimum.x, y |-> Inner.maximum.y]
        /\ p = d.maximum => result = [x |-> Inner.maximum.x, y |-> Inner.minimum.y]
        /\ (Lt(Inner.minimum.x, Inner.maximum.x) /\ Lt(Inner.minimum.y, Inner.maximum.y))
            => \A q \in Points :
                /\ Lt(q.x, p.x) => Lt(to_screen(d, vp, q).x, result.x)
                /\ Lt(q.y, p.y) => Lt(result.y, to_screen(d, vp, q).y)

\* C1 as stated: for every data box with minimum < maximum on both axes,
\* to_screen maps data.minimum to (inner.minimum.x, inner.maximum.y) and
\* data.maximum to (inner.maximum.x, inner.minimum.y), strictly increasing in x
\* and strictly decreasing in y when the inner box has positive size.
C1_EveryProperBox ==
    (Projected /\ Lt(args.data_bounds.minimum.x, args.data_bounds.maximum.x)
               /\ Lt(args.data_bounds.minimum.y, args.data_bounds.maximum.y))
        => CornersAndMonotone

\* C1 amended: the same for every data box whose width and height are both at
\* least f32::EPSILON (a narrower box is treated as degenerate by map_val).
C1_CornersFlipY ==
    (Projected /\ WideBox(args.data_bounds)) => CornersAndMonotone

C1_Witness ==
    /\ Projected
    /\ WideBox(args.data_bounds)
    /\ args.point = args.data_bounds.maximum
    /\ Lt(Inner.minimum.x, Inner.maximum.x)
    /\ Lt(Inner.minimum.y, Inner.maximum.y)
    /\ result = [x |-> Inner.maximum.x, y |-> Inner.minimum.y]

InsideInner(p) ==
    /\ Le(Inner.minimum.x, p.x) /\ Le(p.x, Inner.maximum.x)
    /\ Le(Inner.minimum.y, p.y) /\ Le(p.y, Inner.maximum.y)

InsideData(d, p) ==
    /\ Le(d.minimum.x, p.x) /\ Le(p.x, d.maximum.x)
    /\ Le(d.minimum.y, p.y) /\ Le(p.y, d.maximum.y)

\* C2 as stated: every point produced by to_screen, for every data point,
\* lies inside the inner box of the viewport.
C2_EveryPointInside == Projected => InsideInner(result)

\* C2 amended: every data point that lies inside the data box is projected
\* inside the inner box of the viewport.
C2_BoxPointsInside ==
    (Projected /\ InsideData(args.data_bounds, args.point)) => InsideInner(result)

C2_Witness ==
    /\ Projected
    /\ WideBox(args.data_bounds)
    /\ Lt(args.data_bounds.minimum.x, args.point.x)
    /\ Lt(args.point.x, args.data_bounds.maximum.x)
    /\ Lt(args.data_bounds.minimum.y, args.point.y)
    /\ Lt(args.point.y, args.data_bounds.maximum.y)
    /\ Lt(Inner.minimum.x, result.x) /\ Lt(result.x, Inner.maximum.x)
    /\ Lt(Inner.minimum.y, result.y) /\ Lt(result.y, Inner.maximum.y)

\* C3: a data box of zero width sends every point to x = inner.minimum.x and
\* one of zero height sends every point to y = inner.maximum.y.
C3_DegenerateRange ==
    Projected =>
        /\ args.data_bounds.minimum.x = args.data_bounds.maximum.x
            => result.x = Inner.minimum.x
        /\ args.data_bounds.minimum.y = args.data_bounds.maximum.y
            => result.y = Inner.maximum.y

C3_Witness ==
    /\ Projected
    /\ args.data_bounds.minimum.x = args.data_bounds.maximum.x
    /\ args.data_bounds.minimum.y = args.data_bounds.maximum.y
    /\ args.point.x # args.data_bounds.minimum.x
    /\ args.point.y # args.data_bounds.minimum.y
    /\ Lt(Inner.minimum.x, Inner.maximum.x)
    /\ Lt(Inner.minimum.y, Inner.maximum.y)
    /\ result = [x |-> Inner.minimum.x, y |-> Inner.maximum.y]

---------------------------------------------------------------------------
(* Claims about nice numbers and range fitting (SpecRange)                 *)

Fitted == op = "calculate_nice_range"

Padding == Mul(Sub(args.max, args.min), args.padding_pct)

PaddedMin == Sub(args.min, Padding)

PaddedMax == Add(args.max, Padding)

\* the range is not taken for a single point
ProperRange == ~Lt(AbsR(Sub(args.min, args.max)), EPSILON)

\* C4 as stated: for every min <= max, padding_pct >= 0 and target_ticks >= 0,
\* nice_min <= min - padding and max + padding <= nice_max.
C4_ContainsPaddedAlways ==
    Fitted => Le(result[1], PaddedMin) /\ Le(PaddedMax, result[2])

\* C4 amended: nice_min <= min and max <= nice_max always; the padded range
\* [min - padding, max + padding] is contained as well whenever
\* max - min >= f32::EPSILON or the padding is at most 1.
C4_ContainsInput ==
    Fitted =>
        /\ Le(result[1], args.min) /\ Le(args.max, result[2])
        /\ (ProperRange \/ Le(Padding, One))
            => Le(result[1], PaddedMin) /\ Le(PaddedMax, result[2])

C4_Witness ==
    /\ Fitted
    /\ ProperRange
    /\ Lt(Zero, Padding)
    /\ Lt(result[1], PaddedMin)
    /\ Lt(PaddedMax, result[2])

\* the step calculate_nice_range computes (ticks.max(1) in the divisor)
FitStep ==
    nice_number(Div(Sub(PaddedMax, PaddedMin), R(MaxI(args.ticks, 1))), TRUE)

\* x is an integer multiple of step: for fractions in lowest terms, x / step
\* is an integer iff the numerator of step divides that of x and the
\* denominator of x divides that of step
IsMultiple(x, step) ==
    IF step = Zero THEN x = Zero
    ELSE x[1] % AbsI(step[1]) = 0 /\ step[2] % x[2] = 0

\* C5 as stated: for every min <= max, the single point min == max included,
\* nice_min and nice_max are integer multiples of the step.
C5_MultiplesAlways ==
    Fitted => IsMultiple(result[1], FitStep) /\ IsMultiple(result[2], FitStep)

\* C5 amended: for every min, max with max - min >= f32::EPSILON, nice_min and
\* nice_max are integer multiples of the step.
C5_Multiples ==
    (Fitted /\ ProperRange)
        => IsMultiple(result[1], FitStep) /\ IsMultiple(result[2], FitStep)

C5_Witness ==
    /\ Fitted
    /\ ProperRange
    /\ result[1] # PaddedMin
    /\ result[2] # PaddedMax
    /\ result[1] # Zero
    /\ IsMultiple(result[1], FitStep)
    /\ IsMultiple(result[2], FitStep)

\* decades the nice-number inputs lie in
Decades == -9 .. 3

\* the 1/2/5/10 digit the claim assigns to value in the decade [10^k, 10^(k+1))
NiceDigit(value, k) ==
    IF Lt(value, Mul(<<3, 2>>, Pow(Ten, k))) THEN One
    ELSE IF Lt(value, Mul(R(3), Pow(Ten, k))) THEN R(2)
    ELSE IF Lt(value, Mul(R(7), Pow(Ten, k))) THEN R(5)
    ELSE Ten

\* C6: nice_number(value, true) = r * 10^k where 10^k <= value < 10^(k+1) and
\* r = 1, 2, 5, 10 for value / 10^k in [1, 1.5), [1.5, 3), [3, 7), [7, 10).
C6_NiceNumber ==
    (op = "nice_number" /\ args.round) =>
        \E k \in Decades :
            /\ Le(Pow(Ten, k), args.value)
            /\ Lt(args.value, Pow(Ten, k + 1))
            /\ result = Mul(NiceDigit(args.value, k), Pow(Ten, k))

C6_Witness ==
    /\ op = "nice_number"
    /\ args.round
    /\ args.value = <<5, 2>>
    /\ result = R(2)

---------------------------------------------------------------------------
(* Claims about tick generation (SpecTicks)                                *)

Generated == op = "generate_ticks"

ScaleIs(kind) == Generated /\ args.spec.scale.kind = kind

\* Separation::Auto, or Separation::Value(v) with v positive
ProperSeparation ==
    \/ args.spec.separation[1] = "Auto"
    \/ (args.spec.separation[1] = "Value" /\ Lt(Zero, args.spec.separation[2]))

TickValue(i) == result.ticks[i].value

\* C7: for every min <= max, every max_ticks and every separation (Auto or a
\* positive Value) the first linear tick is <= min and the last one >= max.
C7_LinearBrackets ==
    (ScaleIs("Linear") /\ Le(args.min, args.max) /\ ProperSeparation /\ result.complete)
        => /\ result.ticks # <<>>
           /\ Le(TickValue(1), args.min)
           /\ Le(args.max, TickValue(Len(result.ticks)))

\* C8: in every linear TickSet two consecutive ticks differ by exactly
\* TickSet.step, for every range, max_ticks and separation, also after the snap
\* of near-zero values to 0.
C8_StepApart ==
    ScaleIs("Linear") =>
        \A i \in 1 .. (Len(result.ticks) - 1) :
            Sub(TickValue(i + 1), TickValue(i)) = result.step[1]

\* C9: for every scale and every input the ticks are strictly ascending by
\* value, and for SymLog no two adjacent ticks are within 1e-6 of each other.
C9_StrictlyAscending ==
    Generated =>
        \A i \in 1 .. (Len(result.ticks) - 1) :
            /\ Lt(TickValue(i), TickValue(i + 1))
            /\ ScaleIs("SymLog")
                => ~Lt(AbsR(Sub(TickValue(i + 1), TickValue(i))), DedupTolerance)

\* C10: the Log scale returns an empty tick list with step None whenever
\* base <= 1 (base == 1 included) or the larger of the two bounds is <= 0.
C10_LogRejectsInvalid ==
    (ScaleIs("Log") /\ (Le(args.spec.scale.base, One) \/ Le(MaxR(args.min, args.max), Zero)))
        => /\ result.ticks = <<>>
           /\ result.step = <<>>

\* the range of a Log call, ordered
LogLow == MinR(args.min, args.max)

LogHigh == MaxR(args.min, args.max)

\* a Log call with base > 1 and 0 < low < high
ProperLog ==
    /\ ScaleIs("Log")
    /\ Lt(One, args.spec.scale.base)
    /\ Lt(Zero, LogLow)
    /\ Lt(LogLow, LogHigh)

\* the values of the major ticks of the result, in their order
MajorValues ==
    LET majors == SelectSeq(result.ticks, LAMBDA t : t.major)
    IN  [i \in 1 .. Len(majors) |-> majors[i].value]

\* v is an integer power of base, for v > 0 and base > 1
IsPower(v, base) == Pow(base, LogFloor(v, base)) = v

\* the major ticks are the powers of base in [low, high), each once
ExactPowers(low, high, base) ==
    /\ \A i \in 1 .. Len(MajorValues) :
        /\ IsPower(MajorValues[i], base)
        /\ Le(low, MajorValues[i])
        /\ Lt(MajorValues[i], high)
        /\ i > 1 => Lt(MajorValues[i - 1], MajorValues[i])
    /\ \A e \in (LogFloor(low, base) - 1) .. (LogCeil(high, base) + 1) :
        (Le(low, Pow(base, e)) /\ Lt(Pow(base, e), high))
            => \E i \in 1 .. Len(MajorValues) : MajorValues[i] = Pow(base, e)

\* C11 as stated: for base > 1 and 0 < low < high the major log ticks are
\* exactly the integer powers of base in [low, high).
C11_ExactPowersAlways ==
    ProperLog => ExactPowers(LogLow, LogHigh, args.spec.scale.base)

\* C11: for base > 1 and f32::MIN_POSITIVE <= low < high the major log ticks
\* are exactly the integer powers of base in [low, high): every such power is
\* present once, nothing else is major, a power equal to high is left out.
C11_ExactPowers ==
    (ProperLog /\ Le(MIN_POSITIVE, LogLow))
        => ExactPowers(LogLow, LogHigh, args.spec.scale.base)

\* base 10 over [1, 1000) gives exactly 1, 10, 100
C11_Witness ==
    /\ ScaleIs("Log")
    /\ args.spec.scale.base = Ten
    /\ args.min = One
    /\ args.max = R(1000)
    /\ MajorValues = <<One, Ten, R(100)>>

\* C12: the SymLog scale returns an empty tick list whenever base <= 1
\* (base == 1 included) or lin_threshold < 1, for every range, include_minor
\* and max_ticks.
C12_SymLogRejectsInvalid ==
    (ScaleIs("SymLog")
        /\ (Le(args.spec.scale.base, One) \/ Lt(args.spec.scale.lin_threshold, One)))
        => /\ result.ticks = <<>>
           /\ result.step = <<>>

\* a SymLog call with base > 1 and lin_threshold >= 1 over a range [-R, R]
\* with R > lin_threshold
SymmetricSymLog ==
    /\ ScaleIs("SymLog")
    /\ Lt(One, args.spec.scale.base)
    /\ Le(One, args.spec.scale.lin_threshold)
    /\ args.min = Neg(args.max)
    /\ Lt(args.spec.scale.lin_threshold, args.max)

\* the label of the mirror image of a tick labelled l
MirrorLabel(l) == IF l = <<>> THEN <<>> ELSE <<"-">> \o l

\* C13: over a symmetric range [-R, R] with R > lin_threshold, every tick with
\* value v > lin_threshold, label L and major flag m has a mirror tick with
\* value -v, the same major flag and the label "-" followed by L (an empty
\* label when L is empty).
C13_SignSymmetric ==
    SymmetricSymLog =>
        \A i \in 1 .. Len(result.ticks) :
            Lt(args.spec.scale.lin_threshold, TickValue(i)) =>
                \E j \in 1 .. Len(result.ticks) :
                    /\ TickValue(j) = Neg(TickValue(i))
                    /\ result.ticks[j].major = result.ticks[i].major
                    /\ result.ticks[j].label = MirrorLabel(result.ticks[i].label)

\* C14: for every range min <= max and every max_ticks >= 2 the Linear scale
\* with Separation::Auto returns at most max_ticks ticks.
C14_AtMostMaxTicks ==
    (ScaleIs("Linear") /\ args.spec.separation = Auto /\ Le(args.min, args.max)
        /\ args.spec.max_ticks >= 2)
        => Len(result.ticks) <= args.spec.max_ticks

---------------------------------------------------------------------------
(* Claims about the axis and the bounding boxes (SpecAxis)                 *)

\* the two ranges of a fitting call, ordered and nice-fitted one by one
NiceX ==
    calculate_nice_range(MinR(args.x_range[1], args.x_range[2]),
                         MaxR(args.x_range[1], args.x_range[2]),
                         args.padding_pct, args.ticks)

NiceY ==
    calculate_nice_range(MinR(args.y_range[1], args.y_range[2]),
                         MaxR(args.y_range[1], args.y_range[2]),
                         args.padding_pct, args.ticks)

\* C15: Axis::fitting builds two segments that share their from endpoint at
\* (nice_min_x, nice_min_y), with x_axis.to = (nice_max_x, nice_min_y) and
\* y_axis.to = (nice_min_x, nice_max_y), where nice_max_x > nice_min_x and
\* nice_max_y > nice_min_y, for every x_range and y_range, also with
\* start > end and for single-point ranges.
C15_FittingCorner ==
    op = "fitting" =>
        /\ result.x_axis.from = Datapoint(NiceX[1], NiceY[1])
        /\ result.y_axis.from = Datapoint(NiceX[1], NiceY[1])
        /\ result.x_axis.to = Datapoint(NiceX[2], NiceY[1])
        /\ result.y_axis.to = Datapoint(NiceX[1], NiceY[2])
        /\ Lt(result.x_axis.from.x, result.x_axis.to.x)
        /\ Lt(result.y_axis.from.y, result.y_axis.to.y)

\* C16: BBox::new orders any two corners: minimum <= maximum on both axes,
\* each component is the min or the max of the two inputs, and BBox::new(a, b)
\* equals BBox::new(b, a).
C16_BBoxOrdered ==
    op = "BBox_new" =>
        /\ Le(result.minimum.x, result.maximum.x)
        /\ Le(result.minimum.y, result.maximum.y)
        /\ {result.minimum.x, result.maximum.x} = {args.a.x, args.b.x}
        /\ {result.minimum.y, result.maximum.y} = {args.a.y, args.b.y}
        /\ result = BBox_new(args.b, args.a)

\* corners given in no order at all: a is right of and below b
C16_Witness ==
    /\ op = "BBox_new"
    /\ args.a = Datapoint(R(3), R(-2))
    /\ args.b = Datapoint(Zero, <<1, 2>>)
    /\ result.minimum = Datapoint(Zero, R(-2))
    /\ result.maximum = Datapoint(R(3), <<1, 2>>)

\* a segment with its ends swapped
Swapped(line) == Line(line.to, line.from)

\* C17: Axis::data_bounds returns a box with minimum <= maximum on both axes,
\* so that no assertion of from_min_max fails, and swapping from and to of
\* either segment leaves the box unchanged.
C17_DataBoundsOrderFree ==
    op = "data_bounds" =>
        /\ ~result.panics
        /\ Le(result.minimum.x, result.maximum.x)
        /\ Le(result.minimum.y, result.maximum.y)
        /\ result = data_bounds(Axis(Swapped(args.axis.x_axis), args.axis.y_axis))
        /\ result = data_bounds(Axis(args.axis.x_axis, Swapped(args.axis.y_axis)))

\* both segments run backwards, and the box is the ordered one
C17_Witness ==
    /\ op = "data_bounds"
    /\ args.axis.x_axis = Line(Datapoint(R(3), Zero), Datapoint(R(-2), Zero))
    /\ args.axis.y_axis = Line(Datapoint(Zero, R(3)), Datapoint(Zero, R(-2)))
    /\ result.minimum = Datapoint(R(-2), R(-2))
    /\ result.maximum = Datapoint(R(3), R(3))
    /\ ~result.panics

---------------------------------------------------------------------------
(* Claims about linear_spacing (SpecRange)                                 *)

\* the bounds of a linear_spacing call, ordered, and widened by 1 when equal
SpacingLow ==
    IF args.min = args.max THEN Sub(args.min, One) ELSE MinR(args.min, args.max)

SpacingHigh ==
    IF args.min = args.max THEN Add(args.max, One) ELSE MaxR(args.min, args.max)

\* C18: linear_spacing normalizes the order of its bounds: it returns
\* val_min = floor(low / step) * step and val_max = ceil(high / step) * step
\* for the ordered (and, when equal, widened) bounds low and high, so that
\* val_min <= low, high <= val_max and linear_spacing(a, b, n) =
\* linear_spacing(b, a, n).
C18_SpacingNormalized ==
    op = "linear_spacing" =>
        /\ result[1] = Mul(R(Floor(Div(SpacingLow, result[3]))), result[3])
        /\ result[2] = Mul(R(Ceil(Div(SpacingHigh, result[3]))), result[3])
        /\ Le(result[1], SpacingLow)
        /\ Le(SpacingHigh, result[2])
        /\ result = linear_spacing(args.max, args.min, args.max_ticks)

---------------------------------------------------------------------------
(* Further claims about tick generation (SpecTicks)                        *)

\* a SymLog call with base > 1, lin_threshold >= 1 and hi > lin_threshold
PositiveWing ==
    /\ ScaleIs("SymLog")
    /\ Lt(One, args.spec.scale.base)
    /\ Le(One, args.spec.scale.lin_threshold)
    /\ Lt(args.spec.scale.lin_threshold, MaxR(args.min, args.max))

\* some tick of the result has the value v
HasTick(v) == \E i \in 1 .. Len(result.ticks) : TickValue(i) = v

\* C19: the positive log wing of a SymLog tick set covers (lin_threshold, hi]:
\* every integer power of base in that interval is a tick of the result, a
\* power equal to hi included.
C19_PositiveWingCovers ==
    PositiveWing =>
        \A e \in LogFloor(args.spec.scale.lin_threshold, args.spec.scale.base)
                    .. (LogCeil(MaxR(args.min, args.max), args.spec.scale.base) + 1) :
            (/\ Lt(args.spec.scale.lin_threshold, Pow(args.spec.scale.base, e))
             /\ Le(Pow(args.spec.scale.base, e), MaxR(args.min, args.max)))
                => HasTick(Pow(args.spec.scale.base, e))

\* the exponents whose powers and multiples can lie in [low, high)
Exponents(low, high, base) == (LogFloor(low, base) - 1) .. (LogCeil(high, base) + 1)

\* the multipliers of the minor ticks: 2 <= m < floor(base)
Multipliers(base) == 2 .. (Floor(base) - 1)

\* the minor ticks of the result are the values m * base^e of [low, high), they
\* come only with include_minor and floor(base) >= 3, are not major, carry an
\* empty label and never have the value of a major tick
MinorsExact(low, high, base, include_minor) ==
    /\ \A i \in 1 .. Len(result.ticks) :
        ~result.ticks[i].major =>
            /\ include_minor
            /\ Floor(base) >= 3
            /\ result.ticks[i].label = <<>>
            /\ Le(low, TickValue(i))
            /\ Lt(TickValue(i), high)
            /\ \E m \in Multipliers(base), e \in Exponents(low, high, base) :
                TickValue(i) = Mul(R(m), Pow(base, e))
            /\ \A j \in 1 .. Len(result.ticks) :
                result.ticks[j].major => TickValue(j) # TickValue(i)
    /\ include_minor =>
        \A m \in Multipliers(base), e \in Exponents(low, high, base) :
            (Le(low, Mul(R(m), Pow(base, e))) /\ Lt(Mul(R(m), Pow(base, e)), high))
                => \E i \in 1 .. Len(result.ticks) :
                    /\ ~result.ticks[i].major
                    /\ TickValue(i) = Mul(R(m), Pow(base, e))

\* C20 as stated: the minor log ticks are exactly the values m * base^e,
\* 2 <= m < floor(base), of [low, high), for every 0 < low < high.
C20_MinorsExactAlways ==
    ProperLog
        => MinorsExact(LogLow, LogHigh, args.spec.scale.base, args.spec.scale.include_minor)

\* C20: for f32::MIN_POSITIVE <= low < high the minor log ticks are exactly
\* the values m * base^e, 2 <= m < floor(base), of [low, high); they are
\* produced only when include_minor is true and floor(base) >= 3, are flagged
\* major = false with an empty label and never coincide with a major tick.
C20_MinorsExact ==
    (ProperLog /\ Le(MIN_POSITIVE, LogLow))
        => MinorsExact(LogLow, LogHigh, args.spec.scale.base, args.spec.scale.include_minor)

\* base 10 over [1, 1000) with minor ticks: 2 .. 9, 20 .. 90, 200 .. 900
C20_Witness ==
    /\ ScaleIs("Log")
    /\ args.spec.scale.base = Ten
    /\ args.spec.scale.include_minor
    /\ args.min = One
    /\ args.max = R(1000)
    /\ Len(SelectSeq(result.ticks, LAMBDA t : ~t.major)) = 24
    /\ \E i \in 1 .. Len(result.ticks) :
        result.ticks[i] = [value |-> R(900), label |-> <<>>, major |-> FALSE]

\* the symlog call was not rejected: base >= 1 and lin_threshold >= 1
SymLogAccepted ==
    /\ ScaleIs("SymLog")
    /\ Le(One, args.spec.scale.base)
    /\ Le(One, args.spec.scale.lin_threshold)

\* the values of the ticks of the linear core of the call, empty without core
CoreValues ==
    LET lo == MinR(args.min, args.max)
        hi == MaxR(args.min, args.max)
        core_lo == MaxR(lo, Neg(args.spec.scale.lin_threshold))
        core_hi == MinR(hi, args.spec.scale.lin_threshold)
    IN  IF Le(core_lo, core_hi)
        THEN LET core == linear_ticks(core_lo, core_hi,
                             TickSpec(Linear, Clamp(args.spec.max_ticks, 3, 7), Auto))
             IN  {core.ticks[i].value : i \in 1 .. Len(core.ticks)}
        ELSE {}

\* the value is 0, +lin_threshold or -lin_threshold
AtZeroOrThreshold(v) == v = Zero \/ AbsR(v) = args.spec.scale.lin_threshold

\* C21: in the symlog tick set a tick with the value of a core tick is major
\* exactly when that value is 0, +lin_threshold or -lin_threshold.
C21_CoreMajorAtZeroAndThreshold ==
    SymLogAccepted =>
        \A i \in 1 .. Len(result.ticks) :
            TickValue(i) \in CoreValues
                => (result.ticks[i].major <=> AtZeroOrThreshold(TickValue(i)))

\* C22: in every tick set of the Log and SymLog scales a tick has an empty
\* label exactly when it is minor (major = false).
C22_UnlabeledIffMinor ==
    (ScaleIs("Log") \/ ScaleIs("SymLog")) =>
        \A i \in 1 .. Len(result.ticks) :
            (result.ticks[i].label = <<>>) <=> ~result.ticks[i].major

-----------------------------------------------------------------------------
(* Graph::plot: one call draws the configured sub-elements, step by step.   *)
(* A GraphConfig is modelled by which of its Option fields are Some; the    *)
(* draw handle by the list of the draw calls made on it, each with the      *)
(* state of the scissor mode at the call.                                   *)

\* the most annotations of a graph
MaxAnnotations == 2

\* Option<Vec<ConfiguredElement<Annotation, _>>>: <<>> is None, <<n>> is
\* Some of a vector of n annotations
AnnotationOptions == {<<>>} \cup {<<n>> : n \in 0 .. MaxAnnotations}

\* the Option fields of GraphConfig, TRUE for Some
GraphConfigs ==
    [axis : BOOLEAN, grid : BOOLEAN, ticks : BOOLEAN, title : BOOLEAN,
     xlabel : BOOLEAN, ylabel : BOOLEAN, legend : BOOLEAN,
     annotations : AnnotationOptions]

\* the call: the view is built, nothing is drawn yet
Plot ==
    /\ op = "idle"
    /\ \E configs \in GraphConfigs :
        /\ op' = "plot"
        /\ args' = [configs |-> configs]
        /\ result' = [pc |-> "begin_scissor", scissor |-> FALSE, drawn |-> <<>>,
                      annot |-> 0]

\* the plot call is at the statement pc
PlotAt(pc) == op = "plot" /\ result.pc = pc

\* a draw call on the handle: the element drawn and whether the scissor mode
\* is active
Drawn(element) ==
    Append(result.drawn, [element |-> element, scissored |-> result.scissor])

\* `if let Some(x) = &configs.field { x.draw(..) }`, then the statement next
DrawIfSome(field, next) ==
    /\ result' = [result EXCEPT
                    !.drawn = IF args.configs[field] THEN Drawn(field) ELSE @,
                    !.pc = next]
    /\ UNCHANGED <<op, args>>

\* let mut scissors = rl.begin_scissor_mode(x, y, w, h)
BeginScissor ==
    /\ PlotAt("begin_scissor")
    /\ result' = [result EXCEPT !.scissor = TRUE, !.pc = "grid"]
    /\ UNCHANGED <<op, args>>

\* if let Some(grid) = &configs.grid { grid.draw_in_view(&mut scissors, &view) }
DrawGrid == PlotAt("grid") /\ DrawIfSome("grid", "subject")

\* self.subject.draw_in_view(&mut scissors, &configs.subject_configs, &view)
DrawSubject ==
    /\ PlotAt("subject")
    /\ result' = [result EXCEPT !.drawn = Drawn("subject"), !.pc = "end_scissor"]
    /\ UNCHANGED <<op, args>>

\* a plausible slip: the scissor guard lives to the end of plot
EndScissor_kept ==
    /\ PlotAt("end_scissor")
    /\ result' = [result EXCEPT !.pc = "axis"]
    /\ UNCHANGED <<op, args>>

\* the end of the block: `scissors` is dropped, which ends the scissor mode
EndScissor ==
    /\ PlotAt("end_scissor")
    /\ result' = [result EXCEPT !.scissor = FALSE, !.pc = "axis"]
    /\ UNCHANGED <<op, args>>

\* if let Some(axis) = &configs.axis { axis.draw_in_view(rl, &view) }
DrawAxis == PlotAt("axis") /\ DrawIfSome("axis", "ticks")

\* if let Some(ticks) = &configs.ticks { ticks.draw_in_view(rl, &view) }
DrawTicks == PlotAt("ticks") /\ DrawIfSome("ticks", "title")

\* if let Some(title) = &configs.title { title.draw(rl) }
DrawTitle == PlotAt("title") /\ DrawIfSome("title", "xlabel")

\* if let Some(xlabel) = &configs.title { xlabel.draw(rl) }
DrawXLabel == PlotAt("xlabel") /\ DrawIfSome("title", "ylabel")

\* if let Some(ylabel) = &configs.title { ylabel.draw(rl) }
DrawYLabel == PlotAt("ylabel") /\ DrawIfSome("title", "legend")

\* if let Some(legend) = &configs.legend { legend.draw_in_view(rl, &view) }
DrawLegend == PlotAt("legend") /\ DrawIfSome("legend", "annotations")

\* the number of annotations to draw, 0 for None
AnnotationCount(configs) ==
    IF configs.annotations = <<>> THEN 0 ELSE configs.annotations[1]

\* one turn of `for annot in annotations { annot.draw_in_view(rl, &view) }`
DrawAnnotation ==
    /\ PlotAt("annotations")
    /\ result.annot < AnnotationCount(args.configs)
    /\ result' = [result EXCEPT !.drawn = Drawn("annotation"), !.annot = @ + 1]
    /\ UNCHANGED <<op, args>>

\* the loop over the annotations is over, or there was none: plot returns
PlotEnd ==
    /\ PlotAt("annotations")
    /\ result.annot = AnnotationCount(args.configs)
    /\ result' = [result EXCEPT !.pc = "done"]
    /\ UNCHANGED <<op, args>>

\* the caller goes on after the call
PlotReturn ==
    /\ PlotAt("done")
    /\ op' = "idle"
    /\ args' = [none |-> TRUE]
    /\ result' = [none |-> TRUE]

NextPlot ==
    \/ Plot \/ BeginScissor \/ DrawGrid \/ DrawSubject \/ EndScissor
    \/ DrawAxis \/ DrawTicks \/ DrawTitle \/ DrawXLabel \/ DrawYLabel
    \/ DrawLegend \/ DrawAnnotation \/ PlotEnd \/ PlotReturn

SpecPlot == Init /\ [][NextPlot]_vars

-----------------------------------------------------------------------------
(* Claims about Graph::plot (SpecPlot).                                     *)

\* how many times the element was drawn so far
DrawCount(element) ==
    Cardinality({i \in 1 .. Len(result.drawn) : result.drawn[i].element = element})

\* C23: one plot call draws the title once iff a title is configured, the x
\* label once iff an xlabel is configured and the y label once iff a ylabel is
\* configured.
C23_LabelsDrawnOnce ==
    PlotAt("done") =>
        \A label \in {"title", "xlabel", "ylabel"} :
            DrawCount(label) = IF args.configs[label] THEN 1 ELSE 0

\* the place of an element in the order grid, subject data, axis, ticks, text
\* labels, legend, annotations
DrawRank(element) ==
    CASE element = "grid" -> 1
      [] element = "subject" -> 2
      [] element = "axis" -> 3
      [] element = "ticks" -> 4
      [] element \in {"title", "xlabel", "ylabel"} -> 5
      [] element = "legend" -> 6
      [] element = "annotation" -> 7

\* the element is configured; the subject always is
Configured(configs, element) ==
    CASE element = "subject" -> TRUE
      [] element = "annotation" -> AnnotationCount(configs) > 0
      [] OTHER -> configs[element]

\* C24: within one plot call the draw calls come in the order grid, subject
\* data, axis, ticks, text labels, legend, annotations, each element only if
\* configured; the grid and the subject are drawn with the scissor mode
\* active, everything after them with the scissor mode ended; at the end the
\* subject and every configured grid, axis, ticks, legend and annotation have
\* been drawn once.
C24_DrawOrder ==
    op = "plot" =>
        /\ \A i \in 1 .. Len(result.drawn) :
            /\ Configured(args.configs, result.drawn[i].element)
            /\ result.drawn[i].scissored <=> result.drawn[i].element \in {"grid", "subject"}
            /\ \A j \in 1 .. Len(result.drawn) :
                i < j => DrawRank(result.drawn[i].element)
                            <= DrawRank(result.drawn[j].element)
        /\ result.pc = "done" =>
            /\ ~result.scissor
            /\ DrawCount("subject") = 1
            /\ DrawCount("annotation") = AnnotationCount(args.configs)
            /\ \A element \in {"grid", "axis", "ticks", "legend"} :
                DrawCount(element) = IF args.configs[element] THEN 1 ELSE 0

\* a full graph with two annotations has been plotted
C24_Witness ==
    /\ PlotAt("done")
    /\ args.configs.grid /\ args.configs.axis /\ args.configs.ticks
    /\ args.configs.title /\ args.configs.legend
    /\ args.configs.annotations = <<2>>
    /\ result.drawn[1] = [element |-> "grid", scissored |-> TRUE]
    /\ result.drawn[2] = [element |-> "subject", scissored |-> TRUE]
    /\ result.drawn[3] = [element |-> "axis", scissored |-> FALSE]
    /\ result.drawn[Len(result.drawn)] = [element |-> "annotation", scissored |-> FALSE]

-----------------------------------------------------------------------------
(* Theme resolution: GraphBuilder::build ends with GraphConfig::resolve_    *)
(* theme, which applies the colour scheme to every configured element.      *)
(* Option<T> is <<>> for None and <<t>> for Some(t); a config is modelled   *)
(* by its colour fields.                                                    *)

None == <<>>

Some(x) == <<x>>

\* a Colorscheme: its grid, text and axis colours and its cycle
Scheme == [grid |-> "grid", text |-> "text", axis |-> "axis", cycle |-> <<"accent">>]

\* an Option<Color> field as a user can leave or set it; "red" is a colour
\* the scheme does not hold
ColorOptions == {None, Some("red")}

\* Option<C> over the configs of C
OptionOf(configs) == {None} \cup {Some(c) : c \in configs}

\* TextStyle, by its color
TextStyles == [color : ColorOptions]

\* AxisConfigs and GridLinesConfig, by their color
LineStyles == [color : ColorOptions]

\* TickLabelsConfig, by its color and its label_style
TickStyles == [color : ColorOptions, label_style : TextStyles]

\* LegendConfig, by its label_style
LegendStyles == [label_style : TextStyles]

\* AnnotationConfig, by its style and the color of its optional leader line
AnnotationStyles == [style : TextStyles, line : OptionOf([color : ColorOptions])]

\* the vectors of at most MaxAnnotations annotation configs
AnnotationVectors ==
    UNION {[1 .. n -> AnnotationStyles] : n \in 0 .. MaxAnnotations}

\* Option<C> over the one config of C whose colours are all unset
UnsetOrNone(config) == {None, Some(config)}

\* the GraphConfig that build hands to resolve_theme, with the config of a
\* scatter plot as the subject's: every choice of the elements without
\* annotations, and every vector of annotations with elements whose colours,
\* the title's apart, are unset
ThemedConfigs ==
    [subject_configs : [color : ColorOptions],
     colorscheme : {Scheme},
     axis : OptionOf(LineStyles), grid : OptionOf(LineStyles),
     ticks : OptionOf(TickStyles),
     title : OptionOf(TextStyles), xlabel : OptionOf(TextStyles),
     ylabel : OptionOf(TextStyles),
     legend : OptionOf(LegendStyles),
     annotations : {None, Some(<<>>)}]
        \cup
    [subject_configs : [color : ColorOptions],
     colorscheme : {Scheme},
     axis : UnsetOrNone([color |-> None]), grid : UnsetOrNone([color |-> None]),
     ticks : UnsetOrNone([color |-> None, label_style |-> [color |-> None]]),
     title : OptionOf(TextStyles), xlabel : UnsetOrNone([color |-> None]),
     ylabel : UnsetOrNone([color |-> None]),
     legend : UnsetOrNone([label_style |-> [color |-> None]]),
     annotations : OptionOf(AnnotationVectors)]

\* impl Themable for TextStyle
TextStyle_apply_theme(style, scheme) ==
    IF style.color = None THEN [style EXCEPT !.color = Some(scheme.text)] ELSE style

\* impl Themable for AxisConfigs
AxisConfigs_apply_theme(configs, scheme) ==
    IF configs.color = None THEN [configs EXCEPT !.color = Some(scheme.axis)]
    ELSE configs

\* impl Themable for GridLinesConfig
GridLinesConfig_apply_theme(configs, scheme) ==
    IF configs.color = None THEN [configs EXCEPT !.color = Some(scheme.grid)]
    ELSE configs

\* impl Themable for TickLabelsConfig
TickLabelsConfig_apply_theme(configs, scheme) ==
    [color |-> IF configs.color = None THEN Some(scheme.axis) ELSE configs.color,
     label_style |-> TextStyle_apply_theme(configs.label_style, scheme)]

\* impl Themable for LegendConfig
LegendConfig_apply_theme(configs, scheme) ==
    [configs EXCEPT !.label_style = TextStyle_apply_theme(@, scheme)]

\* the two `if let Some(line_configs) = &mut self.line` of AnnotationConfig's
\* apply_theme, run on the style that has just been themed
AnnotLine_apply_theme(line, style, scheme) ==
    LET first ==
            IF line # None /\ line[1].color = None /\ style.color = None
            THEN Some([line[1] EXCEPT !.color = Some(scheme.text)])
            ELSE line
    IN  IF first # None /\ first[1].color = None /\ style.color # None
        THEN Some([first[1] EXCEPT !.color = style.color])
        ELSE first

\* impl Themable for AnnotationConfig
AnnotationConfig_apply_theme(configs, scheme) ==
    [style |-> TextStyle_apply_theme(configs.style, scheme),
     line |-> AnnotLine_apply_theme(configs.line,
                                    TextStyle_apply_theme(configs.style, scheme),
                                    scheme)]

\* impl Themable for ScatterPlotConfig: Strategy::Fixed of the first colour of
\* the cycle, black for an empty cycle
ScatterPlotConfig_apply_theme(configs, scheme) ==
    IF configs.color = None
    THEN [configs EXCEPT
            !.color = Some(IF scheme.cycle = <<>> THEN "black" ELSE scheme.cycle[1])]
    ELSE configs

\* a plausible slip: the title gets the axis colour whether set or not
ThemeTitle_overwriting(title, scheme) ==
    IF title = None THEN None ELSE Some([title[1] EXCEPT !.color = Some(scheme.axis)])

\* if let Some(title) = &mut self.title { title.apply_theme(&self.colorscheme) }
ThemeTitle(title, scheme) ==
    IF title = None THEN None ELSE Some(TextStyle_apply_theme(title[1], scheme))

\* GraphConfig::resolve_theme
resolve_theme(self) ==
    [subject_configs |-> ScatterPlotConfig_apply_theme(self.subject_configs, self.colorscheme),
     colorscheme |-> self.colorscheme,
     axis |-> IF self.axis = None THEN None
              ELSE Some(AxisConfigs_apply_theme(self.axis[1], self.colorscheme)),
     grid |-> IF self.grid = None THEN None
              ELSE Some(GridLinesConfig_apply_theme(self.grid[1], self.colorscheme)),
     ticks |-> IF self.ticks = None THEN None
               ELSE Some(TickLabelsConfig_apply_theme(self.ticks[1], self.colorscheme)),
     title |-> ThemeTitle(self.title, self.colorscheme),
     xlabel |-> IF self.xlabel = None THEN None
                ELSE Some(TextStyle_apply_theme(self.xlabel[1], self.colorscheme)),
     ylabel |-> IF self.ylabel = None THEN None
                ELSE Some(TextStyle_apply_theme(self.ylabel[1], self.colorscheme)),
     legend |-> IF self.legend = None THEN None
                ELSE Some(LegendConfig_apply_theme(self.legend[1], self.colorscheme)),
     annotations |->
        IF self.annotations = None THEN None
        ELSE Some([i \in 1 .. Len(self.annotations[1]) |->
                    AnnotationConfig_apply_theme(self.annotations[1][i],
                                                 self.colorscheme)])]

\* GraphBuilder::build: the config of the builder's fields, theme resolved
Build ==
    /\ op = "idle"
    /\ \E config \in ThemedConfigs :
        /\ op' = "build"
        /\ args' = [self |-> config]
        /\ result' = resolve_theme(config)

\* GraphConfig::resolve_theme called on a config that build returned
ResolveTheme ==
    /\ op = "build"
    /\ op' = "resolve_theme"
    /\ args' = [self |-> result]
    /\ result' = resolve_theme(result)

NextTheme == Build \/ ResolveTheme \/ Return

SpecTheme == Init /\ [][NextTheme]_vars

-----------------------------------------------------------------------------
(* Claims about theme resolution (SpecTheme).                               *)

\* the colours of the scheme
SchemeColors(scheme) ==
    {scheme.grid, scheme.text, scheme.axis} \cup {scheme.cycle[i] : i \in 1 .. Len(scheme.cycle)}

\* the colour field `after` of a themed config against the field `before` of
\* the config it came from: a set colour is kept, an unset one becomes a
\* colour of the scheme
Filled(before, after, scheme) ==
    IF before = None THEN after # None /\ after[1] \in SchemeColors(scheme)
    ELSE after = before

\* Filled for the one colour field of an optional config
FilledIn(before, after, scheme) ==
    IF before = None THEN after = None
    ELSE after # None /\ Filled(before[1].color, after[1].color, scheme)

\* Filled for the style and the leader line of every annotation
FilledAnnotations(before, after, scheme) ==
    IF before = None THEN after = None
    ELSE /\ after # None
         /\ Len(after[1]) = Len(before[1])
         /\ \A i \in 1 .. Len(before[1]) :
            /\ Filled(before[1][i].style.color, after[1][i].style.color, scheme)
            /\ FilledIn(before[1][i].line, after[1][i].line, scheme)

\* what C25 says of every element but the annotations, and of the second
\* application
FilledElements ==
    /\ FilledIn(args.self.axis, result.axis, Scheme)
    /\ FilledIn(args.self.grid, result.grid, Scheme)
    /\ FilledIn(args.self.title, result.title, Scheme)
    /\ FilledIn(args.self.xlabel, result.xlabel, Scheme)
    /\ FilledIn(args.self.ylabel, result.ylabel, Scheme)
    /\ FilledIn(args.self.ticks, result.ticks, Scheme)
    /\ args.self.ticks # None =>
        Filled(args.self.ticks[1].label_style.color,
               result.ticks[1].label_style.color, Scheme)
    /\ IF args.self.legend = None THEN result.legend = None
       ELSE /\ result.legend # None
            /\ Filled(args.self.legend[1].label_style.color,
                      result.legend[1].label_style.color, Scheme)
    /\ op = "resolve_theme" => result = args.self

InheritingAnnotations(before, after, scheme) ==
    IF before = None THEN after = None
    ELSE /\ after # None
         /\ Len(after[1]) = Len(before[1])
         /\ \A i \in 1 .. Len(before[1]) :
            /\ Filled(before[1][i].style.color, after[1][i].style.color, scheme)
            /\ IF before[1][i].line = None THEN after[1][i].line = None
               ELSE /\ after[1][i].line # None
                    /\ after[1][i].line[1].color =
                        IF before[1][i].line[1].color = None
                        THEN after[1][i].style.color
                        ELSE before[1][i].line[1].color

-----------------------------------------------------------------------------
(* KMeans: new, then fit, which calls step while the centroids have not    *)
(* converged; step is assign, update and the count of the iteration.  The  *)
(* coordinates are whole numbers, multiples of Unit, so that the sums and  *)
(* the averages of update are exact; the distances are compared by their   *)
(* squares.                                                                *)

\* DEFAULT_MAX_ITER, 1000 in the source, on the model's scale
DEFAULT_MAX_ITER == 3

\* DEFAULT_MIN_MOV = 1e-4, squared
MinMovSquared == <<1, 100000000>>

\* the most points of a dataset and the most centroids
MaxPoints == 3

MaxK == 2

Point(x, y) == [x |-> x, y |-> y]

RECURSIVE Factorial(_)
Factorial(n) == IF n <= 1 THEN 1 ELSE n * Factorial(n - 1)

\* the average of up to MaxPoints multiples of Unit is a whole number
Unit == Factorial(MaxPoints)

\* the points the datasets are made of
DataPoints == {Point(a, b) : a \in {0, 2 * Unit}, b \in {0, 2 * Unit}}

\* Dataset::data: the empty dataset (make_circles with n_samples = 0) and the
\* datasets of up to MaxPoints points
Datasets == UNION {[1 .. n -> DataPoints] : n \in 0 .. MaxPoints}

\* the folds of Dataset::new, for one coordinate of a non-empty dataset: from
\* the accumulator acc over the points i, i + 1, ...
RECURSIVE FoldMinFrom(_, _, _, _)
FoldMinFrom(data, coord, i, acc) ==
    IF i > Len(data) THEN acc
    ELSE FoldMinFrom(data, coord, i + 1,
                     IF data[i][coord] < acc THEN data[i][coord] ELSE acc)

RECURSIVE FoldMaxFrom(_, _, _, _)
FoldMaxFrom(data, coord, i, acc) ==
    IF i > Len(data) THEN acc
    ELSE FoldMaxFrom(data, coord, i + 1,
                     IF acc < data[i][coord] THEN data[i][coord] ELSE acc)

FoldMin(data, coord) == FoldMinFrom(data, coord, 1, data[1][coord])

FoldMax(data, coord) == FoldMaxFrom(data, coord, 1, data[1][coord])

\* rng.random_range(range_min..range_max) of initialize, for one coordinate:
\* the lower end and the middle of the range stand for its values; an empty
\* range has none (random_range panics)
RandomRange(low, high) ==
    IF low < high THEN {low, (low + high) \div 2} ELSE {}

\* the centers initialize can draw for the dataset
RandomCenters(data) ==
    IF data = <<>> THEN {}
    ELSE {Point(x, y) :
            x \in RandomRange(FoldMin(data, "x"), FoldMax(data, "x")),
            y \in RandomRange(FoldMin(data, "y"), FoldMax(data, "y"))}

\* the orders in which a HashMap with the keys 0 .. k-1 can be iterated
IterationOrders(k) ==
    {order \in [1 .. k -> 0 .. (k - 1)] :
        \A i \in 1 .. k, j \in 1 .. k : i # j => order[i] # order[j]}

\* the square of the distance of assign:
\* powi(center.x - p.x, 2) + powi(center.y - p.y, 2)
DistanceSquared(center, p) ==
    (center.x - p.x) * (center.x - p.x) + (center.y - p.y) * (center.y - p.y)

\* `for (c, cluster) in &self.centroids` of assign from position j of the
\* iteration order on: min_dist and c_index are None (<<>>) or Some
RECURSIVE NearestFrom(_, _, _, _, _, _)
NearestFrom(order, j, centroids, p, min_dist, c_index) ==
    IF j > Len(order) THEN c_index
    ELSE IF \/ min_dist = <<>>
            \/ DistanceSquared(centroids[order[j]].center, p) <= min_dist[1]
    THEN NearestFrom(order, j + 1, centroids, p,
                     <<DistanceSquared(centroids[order[j]].center, p)>>,
                     <<order[j]>>)
    ELSE NearestFrom(order, j + 1, centroids, p, min_dist, c_index)

\* c_index of assign for the point p: <<>> when there is no centroid
Nearest(self, p) == NearestFrom(self.order, 1, self.centroids, p, <<>>, <<>>)

\* the indices 0 .. n-1 of the data, in order
Indices(data) == [i \in 1 .. Len(data) |-> i - 1]

\* a plausible slip: the new friends are pushed after the old ones
assign_keeping(self) ==
    [self EXCEPT !.centroids =
        [c \in DOMAIN self.centroids |->
            [self.centroids[c] EXCEPT !.friends =
                @ \o SelectSeq(Indices(self.data),
                               LAMBDA i : Nearest(self, self.data[i + 1]) = <<c>>)]]]

\* KMeans::assign, for a point that has a nearest centroid: the friends of
\* every centroid are replaced by the indices of the points nearest to it
assign(self) ==
    [self EXCEPT !.centroids =
        [c \in DOMAIN self.centroids |->
            [self.centroids[c] EXCEPT !.friends =
                SelectSeq(Indices(self.data),
                          LAMBDA i : Nearest(self, self.data[i + 1]) = <<c>>)]]]

\* assert!(c_index.is_some()) of assign fails: some point has no centroid
AssignPanics(self) == self.data # <<>> /\ self.k = 0

\* the sum of one coordinate of the points of the indices from position j on
RECURSIVE SumFrom(_, _, _, _)
SumFrom(data, friends, coord, j) ==
    IF j > Len(friends) THEN 0
    ELSE data[friends[j] + 1][coord] + SumFrom(data, friends, coord, j + 1)

\* avg_x and avg_y of update for a cluster with friends
Average(data, friends) ==
    Point(SumFrom(data, friends, "x", 1) \div Len(friends),
          SumFrom(data, friends, "y", 1) \div Len(friends))

\* KMeans::update
update(self) ==
    IF self.data = <<>> \/ self.k = 0 THEN self
    ELSE [self EXCEPT
            !.centroids =
                [c \in DOMAIN self.centroids |->
                    IF self.centroids[c].friends = <<>> THEN self.centroids[c]
                    ELSE [self.centroids[c] EXCEPT
                            !.center = Average(self.data, self.centroids[c].friends)]],
            !.has_converged =
                \/ self.has_converged
                \/ \A c \in DOMAIN self.centroids :
                    \/ self.centroids[c].friends = <<>>
                    \/ Lt(R(DistanceSquared(
                                Average(self.data, self.centroids[c].friends),
                                self.centroids[c].center)),
                          MinMovSquared)]

\* KMeans::new followed by the call of fit: initialize draws the centers, and
\* panics when a range of the data is empty and k > 0
KMeansNew ==
    /\ op = "idle"
    /\ \E data \in Datasets, k \in 0 .. MaxK :
        \E centers \in [0 .. (k - 1) -> RandomCenters(data)], order \in IterationOrders(k) :
            /\ op' = "fit"
            /\ args' = [k |-> k, data |-> data]
            /\ result' = [k |-> k, data |-> data, order |-> order,
                          centroids |-> [c \in 0 .. (k - 1) |->
                                            [center |-> centers[c], friends |-> <<>>]],
                          max_iter |-> DEFAULT_MAX_ITER, curr_iter |-> 0,
                          has_converged |-> FALSE, pc |-> "while"]

\* the call of fit is at the statement pc
FitAt(pc) == op = "fit" /\ result.pc = pc

\* a plausible slip: the loop of fit runs only below max_iter
FitContinues_below(self) == ~self.has_converged /\ self.curr_iter < self.max_iter

\* the condition of the loop of fit
FitContinues(self) == ~self.has_converged /\ self.curr_iter <= self.max_iter

\* while !self.has_converged && self.curr_iter <= self.max_iter
FitWhile ==
    /\ FitAt("while")
    /\ result' = [result EXCEPT !.pc = IF FitContinues(result) THEN "step" ELSE "done"]
    /\ UNCHANGED <<op, args>>

\* the entry of step: it returns at once when converged or at max_iter
StepEnter ==
    /\ FitAt("step")
    /\ result' = [result EXCEPT
                    !.pc = IF result.has_converged \/ result.curr_iter >= result.max_iter
                           THEN "while" ELSE "assign"]
    /\ UNCHANGED <<op, args>>

\* self.assign()
Assign ==
    /\ FitAt("assign")
    /\ result' = IF AssignPanics(result) THEN [result EXCEPT !.pc = "panicked"]
                 ELSE [assign(result) EXCEPT !.pc = "update"]
    /\ UNCHANGED <<op, args>>

\* self.update(); self.curr_iter += 1; and step returns to the loop
Update ==
    /\ FitAt("update")
    /\ result' = [update(result) EXCEPT !.curr_iter = @ + 1, !.pc = "while"]
    /\ UNCHANGED <<op, args>>

\* fit has returned, or has unwound with the panic of assign
FitReturn ==
    /\ op = "fit"
    /\ result.pc \in {"done", "panicked"}
    /\ op' = "idle"
    /\ args' = [none |-> TRUE]
    /\ result' = [none |-> TRUE]

NextKMeans == KMeansNew \/ FitWhile \/ StepEnter \/ Assign \/ Update \/ FitReturn

SpecKMeans == Init /\ [][NextKMeans]_vars

\* fit runs on: a step that can be taken is taken
SpecFit == SpecKMeans /\ WF_vars(FitWhile \/ StepEnter \/ Assign \/ Update)

-----------------------------------------------------------------------------
(* Claims about KMeans (SpecFit, SpecKMeans).                               *)

\* C26: KMeans::fit terminates for every dataset and every k: once called,
\* the loop of fit eventually exits (or the call unwinds with a panic).
C26_FitTerminates ==
    (op = "fit") ~> (op = "fit" /\ result.pc \in {"done", "panicked"})

\* the centroids whose friends hold the index
Holders(i) ==
    {c \in DOMAIN result.centroids :
        \E j \in 1 .. Len(result.centroids[c].friends) :
            result.centroids[c].friends[j] = i}

\* C30: after every assign call on a KMeans with k >= 1 centroids each data
\* index is in the friends of exactly one centroid, once, that centroid is at
\* minimal distance from the point among all centroids, and no friends list
\* holds an index outside the dataset or more indices than assign gave it.
C30_AssignPartitions ==
    (FitAt("update") /\ result.k >= 1) =>
        /\ \A i \in 0 .. (Len(result.data) - 1) :
            /\ Cardinality(Holders(i)) = 1
            /\ \A c \in Holders(i), d \in DOMAIN result.centroids :
                DistanceSquared(result.centroids[c].center, result.data[i + 1])
                    <= DistanceSquared(result.centroids[d].center, result.data[i + 1])
        /\ \A c \in DOMAIN result.centroids :
            \A j \in 1 .. Len(result.centroids[c].friends) :
                /\ result.centroids[c].friends[j] \in 0 .. (Len(result.data) - 1)
                /\ \A l \in 1 .. Len(result.centroids[c].friends) :
                    l # j => result.centroids[c].friends[l] # result.centroids[c].friends[j]

\* the second assign of a fit over three points and two centroids, one of
\* which holds two points
C30_Witness ==
    /\ FitAt("update")
    /\ result.k = 2
    /\ result.curr_iter = 1
    /\ Len(result.data) = 3
    /\ \E c \in DOMAIN result.centroids : Len(result.centroids[c].friends) = 2

-----------------------------------------------------------------------------
(* line.rs: GridLines::plot_vertical and plot_horizontal                    *)

\* get_spacing: an explicit separation is taken as given
get_spacing(length, separation, max_ticks) ==
    IF separation[1] = "Value" THEN separation[2]
    ELSE nice_number(Div(length, R(MaxI(max_ticks, 1))), TRUE)

\* f32::NAN, the value of 0.0 / 0.0 and of inf * 0.0
NaN == <<0, 0>>

\* (min / spacing).ceil() * spacing; a zero spacing makes the quotient
\* infinite or NaN and the product NaN
FirstLine(min, spacing) ==
    IF spacing = Zero THEN NaN
    ELSE RoundF32(Mul(R(Ceil(RoundF32(Div(min, spacing)))), spacing))

\* `pos <= max`: false when pos is NaN
PosInSpan(pos, max) == pos # NaN /\ Le(pos, max)

\* Axis::length_x_axis, Axis::length_y_axis
length_x_axis(axis) == AbsR(Sub(axis.x_axis.to.x, axis.x_axis.from.x))

length_y_axis(axis) == AbsR(Sub(axis.y_axis.to.y, axis.y_axis.from.y))

\* the locals of plot_vertical / plot_horizontal before the loop, for the
\* two ends of the axis line along the direction of travel
GridStart(from, to, spacing) ==
    [spacing |-> spacing, max |-> MaxR(from, to), min |-> MinR(from, to),
     pos |-> FirstLine(MinR(from, to), spacing), lines |-> {}, pc |-> "while"]

\* the spans of an axis line; the last two lie where the f32 values are 2
\* apart: [2^24, 2^24 + 2] and its mirror image
SmallSpans ==
    {<<Zero, Ten>>, <<Ten, Zero>>, <<R(-3), R(7)>>, <<Zero, One>>, <<R(2), R(2)>>,
     <<Zero, <<29, 10>>>>}

HighSpan == <<R(16777216), R(16777218)>>

LowSpan == <<R(-16777216), R(-16777214)>>

GridMaxTicks == {0, 4, 10}

\* <<span along the direction of travel, separation, max_ticks>>.  A negative
\* separation on a small span walks down through 2^24 lines before the
\* addition is absorbed; LowSpan starts the walk where it is absorbed.
GridInputs ==
    {<<s, sep, n>> : s \in SmallSpans,
                     sep \in {Auto, Value(Zero), Value(<<1, 2>>), Value(R(2)), Value(R(3))},
                     n \in GridMaxTicks}
        \cup {<<HighSpan, sep, n>> : sep \in {Auto, Value(One), Value(R(2))}, n \in GridMaxTicks}
        \cup {<<LowSpan, sep, n>> : sep \in {Value(One), Value(R(-1))}, n \in GridMaxTicks}

PlotVertical ==
    /\ op = "idle"
    /\ \E g \in GridInputs, other \in {<<Zero, One>>} :
        \E axis \in {AxisOf(g[1], other)} :
            /\ op' = "plot_vertical"
            /\ args' = [axis |-> axis, config |-> [max_ticks |-> g[3]], sep |-> g[2]]
            /\ result' = GridStart(axis.x_axis.from.x, axis.x_axis.to.x,
                                   get_spacing(length_x_axis(axis), g[2], g[3]))

PlotHorizontal ==
    /\ op = "idle"
    /\ \E g \in GridInputs, other \in {<<Zero, One>>} :
        \E axis \in {AxisOf(other, g[1])} :
            /\ op' = "plot_horizontal"
            /\ args' = [axis |-> axis, config |-> [max_ticks |-> g[3]], sep |-> g[2]]
            /\ result' = GridStart(axis.y_axis.from.y, axis.y_axis.to.y,
                                   get_spacing(length_y_axis(axis), g[2], g[3]))

GridOps == {"plot_vertical", "plot_horizontal"}

GridAt(pc) == op \in GridOps /\ result.pc = pc

\* `while pos <= max`
GridWhile ==
    /\ GridAt("while")
    /\ result' = [result EXCEPT !.pc = IF PosInSpan(result.pos, result.max)
                                        THEN "draw" ELSE "done"]
    /\ UNCHANGED <<op, args>>

\* the loop body: draw_v_line / draw_h_line at pos, then `pos += spacing`
GridDraw ==
    /\ GridAt("draw")
    /\ result' = [result EXCEPT !.lines = @ \cup {result.pos},
                                !.pos = RoundF32(Add(@, result.spacing)),
                                !.pc = "while"]
    /\ UNCHANGED <<op, args>>

GridReturn ==
    /\ GridAt("done")
    /\ op' = "idle"
    /\ args' = [none |-> TRUE]
    /\ result' = [none |-> TRUE]

NextGrid == PlotVertical \/ PlotHorizontal \/ GridWhile \/ GridDraw \/ GridReturn

SpecGrid == Init /\ [][NextGrid]_vars

\* the loop runs on: a step that can be taken is taken
SpecGridLoop == SpecGrid /\ WF_vars(GridWhile \/ GridDraw)

-----------------------------------------------------------------------------
(* Claims about the grid lines (SpecGridLoop, SpecGrid).                    *)

\* C27: grid-line drawing terminates for every separation: for every axis
\* and every Separation (Auto, Value(v) with v = 0 or v < 0 included) the
\* while loop of plot_vertical and of plot_horizontal ends after finitely
\* many lines.
C27_GridTerminates == (op \in GridOps) ~> GridAt("done")

\* the values of the ticks of a TickSet that lie in the closed span
TickValuesIn(tickset, min, max) ==
    {tickset.ticks[i].value : i \in {j \in DOMAIN tickset.ticks :
        Le(min, tickset.ticks[j].value) /\ Le(tickset.ticks[j].value, max)}}

\* the Linear TickSet that TickLabels::draw_in_view generates over the span
\* of the axis line the grid has travelled
TicksOfGrid ==
    generate_ticks(result.min, result.max,
                   TickSpec(Linear, args.config.max_ticks, args.sep))

\* C28: grid lines line up with the linear ticks: with Separation::Auto on
\* both, over a span of positive length, the spacing of the grid is the step
\* of the Linear TickSet over the same bounds and the grid-line positions are
\* the tick values inside the span.
C28_GridMatchesTicks ==
    (GridAt("done") /\ args.sep = Auto /\ Lt(result.min, result.max)) =>
        /\ TicksOfGrid.step = <<result.spacing>>
        /\ result.lines = TickValuesIn(TicksOfGrid, result.min, result.max)

-----------------------------------------------------------------------------
(* dataset.rs: Dataset::new, Dataset::make_circles, Dataset::make_moons     *)

\* f32::INFINITY and f32::NEG_INFINITY, as the fractions 1/0 and -1/0
INFINITY == <<1, 0>>

NEG_INFINITY == <<-1, 0>>

\* a <= b for the whole number a and the f32 b, which may be infinite
LeF(a, b) == a * b[2] <= b[1]

\* a >= b, likewise
GeF(a, b) == a * b[2] >= b[1]

Vector2(x, y) == [x |-> x, y |-> y]

\* the Dataset that Dataset::new builds from a non-empty Vec
Dataset_new(data) ==
    [data |-> data,
     range_max |-> Vector2(R(FoldMax(data, "x")), R(FoldMax(data, "y"))),
     range_min |-> Vector2(R(FoldMin(data, "x")), R(FoldMin(data, "y")))]

\* `if v >= max { max = v; } else if v <= min { min = v; }` for the pair
\* range = <<min, max>> of one coordinate
Track(range, v) ==
    IF GeF(v, range[2]) THEN <<range[1], R(v)>>
    ELSE IF LeF(v, range[1]) THEN <<R(v), range[2]>>
    ELSE range

\* the most samples of a generated dataset
MaxSamples == 3

\* the coordinates a sample can get from the random radius, angle and noise
SampleCoords == {0, 1, 2}

\* the locals of make_circles and make_moons before the loop over the samples
Generating(n_samples) ==
    [n_samples |-> n_samples, i |-> 0, data |-> <<>>,
     x |-> <<INFINITY, NEG_INFINITY>>, y |-> <<INFINITY, NEG_INFINITY>>,
     pc |-> "for"]

\* one pass of the loop for the sample (px, py)
Sampled(self, px, py) ==
    [self EXCEPT !.i = @ + 1,
                 !.data = Append(@, Point(px, py)),
                 !.x = Track(@, px),
                 !.y = Track(@, py)]

DatasetNew ==
    /\ op = "idle"
    /\ \E data \in Datasets :
        /\ op' = "new"
        /\ args' = [data |-> data]
        /\ result' = IF data = <<>> THEN [panics |-> TRUE, pc |-> "done"]
                     ELSE [self |-> Dataset_new(data), panics |-> FALSE, pc |-> "done"]

MakeCircles ==
    /\ op = "idle"
    /\ \E n \in 0 .. MaxSamples :
        /\ op' = "make_circles"
        /\ args' = [config |-> [n_samples |-> n]]
        /\ result' = Generating(n)

MakeMoons ==
    /\ op = "idle"
    /\ \E n \in 0 .. MaxSamples :
        /\ op' = "make_moons"
        /\ args' = [config |-> [n_samples |-> n]]
        /\ result' = Generating(n)

\* the body of `for i in 0..config.n_samples` of make_circles
CirclesSample ==
    /\ op = "make_circles"
    /\ result.pc = "for"
    /\ result.i < result.n_samples
    /\ \E px \in SampleCoords, py \in SampleCoords : result' = Sampled(result, px, py)
    /\ UNCHANGED <<op, args>>

\* the body of `for i in 0..config.n_samples` of make_moons
MoonsSample ==
    /\ op = "make_moons"
    /\ result.pc = "for"
    /\ result.i < result.n_samples
    /\ \E x \in SampleCoords, y \in SampleCoords : result' = Sampled(result, x, y)
    /\ UNCHANGED <<op, args>>

\* the loop is over: the Dataset is built from the locals
Collect ==
    /\ op \in {"make_circles", "make_moons"}
    /\ result.pc = "for"
    /\ result.i = result.n_samples
    /\ result' = [self |-> [data |-> result.data,
                            range_max |-> Vector2(result.x[2], result.y[2]),
                            range_min |-> Vector2(result.x[1], result.y[1])],
                  panics |-> FALSE, pc |-> "done"]
    /\ UNCHANGED <<op, args>>

DatasetOps == {"new", "make_circles", "make_moons"}

DatasetReturn ==
    /\ op \in DatasetOps
    /\ result.pc = "done"
    /\ op' = "idle"
    /\ args' = [none |-> TRUE]
    /\ result' = [none |-> TRUE]

NextDataset ==
    DatasetNew \/ MakeCircles \/ MakeMoons \/ CirclesSample \/ MoonsSample
        \/ Collect \/ DatasetReturn

SpecDataset == Init /\ [][NextDataset]_vars

-----------------------------------------------------------------------------
(* Claims about Dataset (SpecDataset).                                      *)

\* the range of the dataset bounds the coordinate of each point, and each
\* end of the range is the coordinate of some point
RangeBounds(self, coord) ==
    /\ \A i \in DOMAIN self.data :
        /\ GeF(self.data[i][coord], self.range_min[coord])
        /\ LeF(self.data[i][coord], self.range_max[coord])
    /\ \E i \in DOMAIN self.data : R(self.data[i][coord]) = self.range_min[coord]
    /\ \E i \in DOMAIN self.data : R(self.data[i][coord]) = self.range_max[coord]

\* a Dataset of at least one sample has been returned
DatasetReturned ==
    /\ op \in DatasetOps
    /\ result.pc = "done"
    /\ ~result.panics
    /\ result.self.data # <<>>

\* C29: the stored range of a Dataset bounds its points: for every Dataset
\* returned by Dataset::new, make_circles or make_moons with at least one
\* sample, range_min <= p <= range_max in x and in y for every stored point
\* p, and each bound is attained by some point, whatever the order in which
\* the points were generated.
C29_RangeBoundsPoints ==
    DatasetReturned => RangeBounds(result.self, "x") /\ RangeBounds(result.self, "y")

====
